---- MODULE Spec2Model ----
(***************************************************************************)
(* RECO3 integrity-gating engine: the persisted EngineState                *)
(* (reco2/store.py), the IntegrityEngine operations evaluate_payload,      *)
(* record_feedback and patrol (reco2/engine.py) and the generation         *)
(* orchestrator (reco2/orchestrator.py) with its input and output scorers. *)
(*                                                                         *)
(* Numbers are fixed point, because TLC has 32-bit integers only:          *)
(*   k                 in units of 0.01   (1.5   is 150)                   *)
(*   eta, weights, T   in units of 1e-6   (0.01  is 10000)                 *)
(*   D, psi            in units of 0.001                                   *)
(*   rewards           in units of 0.1    (+1 is 10, -1 is -10, 0.3 is 3)  *)
(*   confidence, cms   in units of 0.01                                    *)
(*   scorer scores, psi_modifier, temperatures in units of 1e-6            *)
(*   pre_d, post_d     in units of 1e-8   (score times weight in percent)  *)
(*                     and of 1e-6 as returned, after round(x, 6)          *)
(* math.exp and math.tanh are tabulated on a grid (ExpTable, TanhTable).   *)
(* Timestamps (ts, created_at, updated_at and the values of                *)
(* used_session_ids) are not modelled: used_session_ids is its key set.    *)
(***************************************************************************)
EXTENDS Integers, Sequences, FiniteSets, TLC

VARIABLES
    state,       \* the EngineState held in instance/resonance_state.json
    uuid_count,  \* how many uuid4() values evaluate_payload has drawn
    n_patrol,    \* manual patrol calls made so far (saturates at MaxPatrols)
    last,        \* request and response of the last completed call
    files,       \* the state file's form and the temporary file beside it
    requests,    \* the calls in flight on each worker thread
    agent        \* the PC agent: its config, its mode and its last pull

vars == <<state, uuid_count, n_patrol, last, files, requests, agent>>

----------------------------------------------------------------------------
(* Bounds of the model *)

MaxSessions == 2
MaxFeedbacks == 1
MaxPatrols == 1
TuneSessions == 1
GenSessions == 1
IOSessions == 10
IOFeedbacks == 1
MaxRegen == 2
AutoSessions == 11
AutoFeedbacks == 1
CapExtra == 3
MaxServed == 2
StoreSessions == 2
MaxEmotionWords == 8
MaxOutLen == 3
WindowSessions == 11
WindowFeedbacks == 1
WeightFeedbacks == 2
TempSessions == 1
EscalateHits == 2
MaxAsserts == 16

----------------------------------------------------------------------------
(* Program constants *)

LOG_CAP == 2000
PATROL_EVERY == 10
PATROL_WINDOW == 10

----------------------------------------------------------------------------
(* Arithmetic helpers *)

Min(a, b) == IF a < b THEN a ELSE b

Max(a, b) == IF a > b THEN a ELSE b

Abs(a) == IF a < 0 THEN -a ELSE a

RECURSIVE SqrtSearch(_, _, _)
SqrtSearch(s, lo, hi) ==
    IF lo >= hi THEN lo
    ELSE LET mid == (lo + hi + 1) \div 2
         IN  IF mid * mid <= s THEN SqrtSearch(s, mid, hi)
             ELSE SqrtSearch(s, lo, mid - 1)

\* floor(sqrt(s)) for 0 <= s < 46340^2
ISqrt(s) == SqrtSearch(s, 0, 46339)

\* 1e6 * exp(-j * 0.005), j = 0 .. 417
ExpTable ==
  <<
     1000000, 995012, 990050, 985112, 980199, 975310, 970446, 965605, 960789, 955997,
     951229, 946485, 941765, 937067, 932394, 927743, 923116, 918512, 913931, 909373,
     904837, 900325, 895834, 891366, 886920, 882497, 878095, 873716, 869358, 865022,
     860708, 856415, 852144, 847894, 843665, 839457, 835270, 831104, 826959, 822835,
     818731, 814647, 810584, 806541, 802519, 798516, 794534, 790571, 786628, 782705,
     778801, 774916, 771052, 767206, 763379, 759572, 755784, 752014, 748264, 744532,
     740818, 737123, 733447, 729789, 726149, 722527, 718924, 715338, 711770, 708220,
     704688, 701173, 697676, 694197, 690734, 687289, 683861, 680451, 677057, 673680,
     670320, 666977, 663650, 660340, 657047, 653770, 650509, 647265, 644036, 640824,
     637628, 634448, 631284, 628135, 625002, 621885, 618783, 615697, 612626, 609571,
     606531, 603506, 600496, 597501, 594521, 591555, 588605, 585669, 582748, 579842,
     576950, 574072, 571209, 568360, 565525, 562705, 559898, 557106, 554327, 551563,
     548812, 546074, 543351, 540641, 537944, 535261, 532592, 529935, 527292, 524663,
     522046, 519442, 516851, 514274, 511709, 509156, 506617, 504090, 501576, 499074,
     496585, 494109, 491644, 489192, 486752, 484325, 481909, 479505, 477114, 474734,
     472367, 470011, 467666, 465334, 463013, 460704, 458406, 456120, 453845, 451581,
     449329, 447088, 444858, 442639, 440432, 438235, 436049, 433874, 431711, 429557,
     427415, 425283, 423162, 421052, 418952, 416862, 414783, 412714, 410656, 408608,
     406570, 404542, 402524, 400517, 398519, 396531, 394554, 392586, 390628, 388680,
     386741, 384812, 382893, 380983, 379083, 377192, 375311, 373439, 371577, 369723,
     367879, 366045, 364219, 362402, 360595, 358796, 357007, 355226, 353455, 351692,
     349938, 348192, 346456, 344728, 343009, 341298, 339596, 337902, 336216, 334540,
     332871, 331211, 329559, 327915, 326280, 324652, 323033, 321422, 319819, 318224,
     316637, 315058, 313486, 311923, 310367, 308819, 307279, 305746, 304221, 302704,
     301194, 299692, 298197, 296710, 295230, 293758, 292293, 290835, 289384, 287941,
     286505, 285076, 283654, 282239, 280832, 279431, 278037, 276651, 275271, 273898,
     272532, 271173, 269820, 268474, 267135, 265803, 264477, 263158, 261846, 260540,
     259240, 257947, 256661, 255381, 254107, 252840, 251579, 250324, 249075, 247833,
     246597, 245367, 244143, 242926, 241714, 240508, 239309, 238115, 236928, 235746,
     234570, 233400, 232236, 231078, 229925, 228779, 227638, 226502, 225373, 224249,
     223130, 222017, 220910, 219808, 218712, 217621, 216536, 215456, 214381, 213312,
     212248, 211189, 210136, 209088, 208045, 207008, 205975, 204948, 203926, 202909,
     201897, 200890, 199888, 198891, 197899, 196912, 195930, 194952, 193980, 193013,
     192050, 191092, 190139, 189191, 188247, 187308, 186374, 185444, 184520, 183599,
     182684, 181772, 180866, 179964, 179066, 178173, 177284, 176400, 175520, 174645,
     173774, 172907, 172045, 171187, 170333, 169483, 168638, 167797, 166960, 166127,
     165299, 164474, 163654, 162838, 162026, 161218, 160414, 159614, 158817, 158025,
     157237, 156453, 155673, 154896, 154124, 153355, 152590, 151829, 151072, 150318,
     149569, 148823, 148080, 147342, 146607, 145876, 145148, 144424, 143704, 142987,
     142274, 141564, 140858, 140156, 139457, 138761, 138069, 137381, 136695, 136014,
     135335, 134660, 133989, 133320, 132655, 131994, 131336, 130680, 130029, 129380,
     128735, 128093, 127454, 126818, 126186, 125556, 124930, 124307 >>

\* 1e6 * exp(-x) for x in units of 1e-5, linearly interpolated on the 0.005
\* grid; 0 beyond the grid (exp(-2.08) < 0.125).
ExpNeg(x) ==
    LET j == x \div 500
        r == x % 500
    IN  IF j >= 416 THEN 0
        ELSE ExpTable[j + 1] - (((ExpTable[j + 1] - ExpTable[j + 2]) * r) \div 500)

\* 1e6 * tanh(n / 30), n = 0 .. 240
TanhTable ==
  <<
     0, 33321, 66568, 99668, 132549, 165140, 197375, 229189, 260520, 291313,
     321513, 351073, 379949, 408103, 435502, 462117, 487925, 512907, 537050, 560343,
     582783, 604368, 625100, 644987, 664037, 682262, 699677, 716298, 732144, 747236,
     761594, 775242, 788202, 800499, 812157, 823201, 833655, 843543, 852892, 861723,
     870062, 877930, 885352, 892348, 898940, 905148, 910993, 916494, 921669, 926535,
     931110, 935409, 939449, 943243, 946806, 950151, 953291, 956237, 959002, 961595,
     964028, 966308, 968447, 970452, 972331, 974093, 975743, 977290, 978739, 980096,
     981368, 982559, 983675, 984720, 985698, 986614, 987472, 988275, 989027, 989731,
     990390, 991007, 991585, 992126, 992632, 993105, 993548, 993963, 994351, 994715,
     995055, 995373, 995671, 995949, 996210, 996454, 996682, 996896, 997096, 997283,
     997458, 997622, 997775, 997918, 998052, 998178, 998295, 998405, 998508, 998604,
     998694, 998778, 998857, 998931, 999000, 999064, 999124, 999181, 999234, 999283,
     999329, 999373, 999413, 999451, 999486, 999519, 999550, 999579, 999606, 999632,
     999656, 999678, 999699, 999718, 999736, 999753, 999769, 999784, 999798, 999811,
     999823, 999835, 999845, 999855, 999865, 999873, 999881, 999889, 999896, 999903,
     999909, 999915, 999921, 999926, 999930, 999935, 999939, 999943, 999947, 999950,
     999953, 999956, 999959, 999962, 999964, 999967, 999969, 999971, 999973, 999974,
     999976, 999978, 999979, 999980, 999982, 999983, 999984, 999985, 999986, 999987,
     999988, 999989, 999989, 999990, 999991, 999991, 999992, 999992, 999993, 999993,
     999994, 999994, 999994, 999995, 999995, 999995, 999996, 999996, 999996, 999997,
     999997, 999997, 999997, 999997, 999998, 999998, 999998, 999998, 999998, 999998,
     999998, 999998, 999999, 999999, 999999, 999999, 999999, 999999, 999999, 999999,
     999999, 999999, 999999, 999999, 999999, 999999, 999999, 999999, 999999, 1000000,
     1000000, 1000000, 1000000, 1000000, 1000000, 1000000, 1000000, 1000000, 1000000, 1000000,
     1000000 >>

\* F at the value of e, with e evaluated once
Once(e, F(_)) == CHOOSE y \in {F(x) : x \in {e}} : TRUE

RECURSIVE SeqSum(_)
SeqSum(s) == IF s = <<>> THEN 0 ELSE Head(s) + SeqSum(Tail(s))

----------------------------------------------------------------------------
(* reco2/store.py *)

default_state ==
    [ k |-> 150, eta |-> 10000, T_base |-> 800,
      k_min |-> 50, k_max |-> 500, eta_min |-> 1000, eta_max |-> 100000,
      total_sessions |-> 0,
      domains |-> [d \in {} |-> 0],
      used_session_ids |-> {},
      session_logs |-> <<>>,
      last_patrol_at_sessions |-> 0 ]

----------------------------------------------------------------------------
(* Strings as callers send them.  str(x).strip() removes the surrounding   *)
(* white space; "" stands for a missing key as well (payload.get(k, "")).  *)

Strip(s) ==
    CASE s = " "      -> ""
      [] s = " x "    -> "x"
      [] s = " good " -> "good"
      [] OTHER        -> s

\* A session id is the number of the uuid4() draw that produced it; a caller
\* sends it as [id |-> n, pad |-> b]: the text of id n, with white space
\* around it when pad.  Id 0 is the empty text.
StripId(raw) == raw.id

\* str.lower() of the values and tokens of the model that are not lower-case
Lower(x) ==
    CASE x = "ENFORCE" -> "enforce"
      [] x = "OK"      -> "ok"
      [] OTHER         -> x

----------------------------------------------------------------------------
(* reco2/engine.py: the pure functions *)

get(f, key, dflt) == IF key \in DOMAIN f THEN f[key] ELSE dflt

euclidean_distance(I, P) ==
    LET both == DOMAIN I \cap DOMAIN P
        keys == IF both = {} THEN DOMAIN I \cup DOMAIN P ELSE both
        d(key) == (get(I, key, 0) - get(P, key, 0)) \div 1000
        RECURSIVE SumSq(_)
        SumSq(S) == IF S = {} THEN 0
                    ELSE LET key == CHOOSE x \in S : TRUE
                         IN  d(key) * d(key) + SumSq(S \ {key})
    IN  ISqrt(SumSq(keys))

context_match_score(context) ==
    LET conf == Max(0, Min(100, context.confidence))
        s1 == IF context.domain_known THEN Min(100, conf + 10) ELSE conf
        s2 == s1 - 3 * context.missing_fields - 4 * context.warnings
    IN  Max(0, Min(100, s2))

\* in units of 1e-4
purity(context) ==
    LET s == context_match_score(context)
        p == IF context.domain_known THEN s * 100 ELSE s * 90
    IN  Max(0, Min(10000, p))

\* in units of 1e-3
alpha(cms) == 1000 + cms * 2

\* Changed: the floor 0.5 is missing
beta_no_floor(pur) == IF pur > 8000 THEN 10000 ELSE pur

\* in units of 1e-4
beta(pur) == IF pur > 8000 THEN 10000 ELSE Max(5000, pur)

\* T = max(0.1, T_base * exp(-k * D)), in units of 1e-6
temperature(T_base, k, D) == Max(100000, (T_base * ExpNeg(k * D)) \div 1000)

\* psi = (1 / T) * alpha * beta, in units of 1e-3
integrity(T_final, al, be) == (al * be * 100) \div T_final

verdict_from_psi(psi) ==
    IF psi >= 1200 THEN "reliable"
    ELSE IF psi >= 800 THEN "moderate"
    ELSE "suspect"

get_domain_weight(st, domain) == get(st.domains, domain, 1000000)

set_domain_weight(st, domain, w) ==
    [st EXCEPT !.domains =
        [d \in DOMAIN st.domains \cup {domain} |->
            IF d = domain THEN w ELSE st.domains[d]]]

\* Changed: the slice keeps the head of the list, logs[:2000]
append_session_log_keep_head(st, entry) ==
    LET logs == Append(st.session_logs, entry)
    IN  [st EXCEPT !.session_logs =
            IF Len(logs) > LOG_CAP THEN SubSeq(logs, 1, LOG_CAP) ELSE logs]

append_session_log(st, entry) ==
    LET logs == Append(st.session_logs, entry)
        n == Len(logs)
    IN  [st EXCEPT !.session_logs =
            IF n > LOG_CAP THEN SubSeq(logs, n - LOG_CAP + 1, n) ELSE logs]

\* Changed: the upper bound is not applied
clamp_lower_only(x, lo, hi) == Max(lo, x)

clamp(x, lo, hi) == Max(lo, Min(hi, x))

----------------------------------------------------------------------------
(* What a call returns (or raises).  One record shape for every operation; *)
(* a field an operation does not set keeps its value in NoRet.             *)

NoRet ==
    [ op |-> "none",
      error |-> "",            \* the exception raised or the error returned
      status |-> "",           \* record_feedback's status
      session_id |-> 0,        \* the session id returned (0: None)
      auto_patrol |-> FALSE,   \* evaluate_payload called patrol(manual=False)
      adjusted |-> FALSE,      \* patrol's "adjusted"
      reason |-> "",           \* patrol's "reason"
      risk_level |-> "",       \* process: input_analysis.risk_level
      attempts |-> 0,          \* process: "attempts"
      calls |-> <<>>,          \* process: what each LLMAdapter.generate call did
      temps |-> <<>>,          \* process: the temperature passed to each call
      psis |-> <<>>,           \* process: psi_modifier of each analysed output
      regenerated |-> FALSE,   \* process: "regenerated"
      annotated |-> FALSE,     \* process: "annotated"
      action |-> "",           \* process: the final output action
      response |-> <<>>,       \* process: "response", as tokens
      generated |-> <<>>,      \* process: the text of the last generate call
      temperature_used |-> 0,  \* process: "temperature_used"
      max_regen |-> 0,         \* process: MAX_REGEN_ATTEMPTS of the call
      threshold |-> 0,         \* process: PSI_REGEN_THRESHOLD of the call
      base_temperature |-> 0,  \* process: BASE_TEMPERATURE of the call
      t_mod |-> 0,             \* process: input_analysis.temperature_modifier
      domain |-> "",           \* process: the domain argument
      eval_id |-> 0,           \* process: reco2_evaluation.session_id
      save_failed |-> FALSE ]  \* a save_state call of the operation failed

----------------------------------------------------------------------------
(* reco2/engine.py: patrol *)

\* Changed: the whole log is taken, whatever its length
patrol_window_all(logs) == logs

\* logs[-10:] if len(logs) >= 10 else logs[:]
patrol_window(logs) ==
    IF Len(logs) >= PATROL_WINDOW
    THEN SubSeq(logs, Len(logs) - PATROL_WINDOW + 1, Len(logs))
    ELSE logs

window_sumD(window) == SeqSum([i \in 1..Len(window) |-> window[i].D])

window_sumR(window) ==
    SeqSum([i \in 1..Len(window) |->
        IF window[i].reward = <<>> THEN 0 ELSE window[i].reward[1]])

window_sumPsi(window) == SeqSum([i \in 1..Len(window) |-> window[i].psi])

\* The four rules, each on avgD, sumR, avgPsi of the window.  An average
\* is compared as a sum: avgD > 0.3 iff sumD > 0.3 * max(1, len).
window_len(window) == Max(1, Len(window))

rule_strictify(window) ==
    window_sumD(window) > 300 * window_len(window) /\ window_sumR(window) < 0

rule_relax(window) ==
    window_sumD(window) < 100 * window_len(window) /\ window_sumR(window) > 0

rule_learn_faster(window) ==
    window_sumD(window) > 300 * window_len(window) /\ window_sumR(window) > 0

rule_tighten(window) == window_sumPsi(window) < 500 * window_len(window)

patrol_k(k, window) ==
    LET k1 == IF rule_strictify(window) THEN k + 10 ELSE k
        k2 == IF rule_relax(window) THEN k1 - 5 ELSE k1
    IN  IF rule_tighten(window) THEN k2 + 5 ELSE k2

\* Changed: the relax rule slows the learning rate down
patrol_eta_relaxing(eta, window) ==
    LET e1 == IF rule_strictify(window) THEN (eta * 105) \div 100 ELSE eta
        e2 == IF rule_relax(window) THEN (e1 * 95) \div 100 ELSE e1
    IN  IF rule_learn_faster(window) THEN (e2 * 102) \div 100 ELSE e2

\* eta *= 1.05 under the first rule, eta *= 1.02 under the third
patrol_eta(eta, window) ==
    LET e1 == IF rule_strictify(window) THEN (eta * 105) \div 100 ELSE eta
    IN  IF rule_learn_faster(window) THEN (e1 * 102) \div 100 ELSE e1

patrol_reason(window) ==
    LET r1 == IF rule_strictify(window) THEN <<"strictify">> ELSE <<>>
        r2 == IF rule_relax(window) THEN <<"relax">> ELSE <<>>
        r3 == IF rule_learn_faster(window) THEN <<"learn faster">> ELSE <<>>
        r4 == IF rule_tighten(window) THEN <<"tighten">> ELSE <<>>
    IN  r1 \o r2 \o r3 \o r4

\* Changed: the early return on an empty log is missing
no_logs_never(logs) == FALSE

\* if not isinstance(logs, list) or not logs
no_logs(logs) == logs = <<>>

\* patrol(manual): the state it saves and what it returns
patrol(st) ==
    IF no_logs(st.session_logs)
    THEN [ state |-> st,
           ret |-> [NoRet EXCEPT !.op = "patrol", !.reason = "no_logs"] ]
    ELSE LET window == patrol_window(st.session_logs)
             k == clamp(patrol_k(st.k, window), st.k_min, st.k_max)
             eta == clamp(patrol_eta(st.eta, window), st.eta_min, st.eta_max)
             reasons == patrol_reason(window)
         IN  [ state |-> [st EXCEPT !.k = k, !.eta = eta],
               ret |-> [NoRet EXCEPT !.op = "patrol",
                          !.adjusted = (reasons # <<>>),
                          !.reason = IF reasons = <<>> THEN "no_change"
                                     ELSE "adjusted"] ]

----------------------------------------------------------------------------
(* reco2/engine.py: evaluate_payload *)

\* Changed: the domain is tested without strip()
validate_payload_unstripped(p) ==
    IF ~p.inference_ok \/ ~p.evidence_ok \/ ~p.context_ok
    THEN "Invalid payload types"
    ELSE IF p.context.domain = ""
    THEN "context.domain is required"
    ELSE ""

\* The ValueError raised before the state is loaded ("" when none is)
validate_payload(p) ==
    IF ~p.inference_ok \/ ~p.evidence_ok \/ ~p.context_ok
    THEN "Invalid payload types"
    ELSE IF Strip(p.context.domain) = ""
    THEN "context.domain is required"
    ELSE ""

new_log_entry(st, p, session_id) ==
    LET D == euclidean_distance(p.inference, p.evidence)
        cms == context_match_score(p.context)
        T == temperature(st.T_base, st.k, D)
        psi == integrity(T, alpha(cms), beta(purity(p.context)))
    IN  [ session_id |-> session_id, domain |-> Strip(p.context.domain),
          D |-> D, T |-> T, psi |-> psi, verdict |-> verdict_from_psi(psi),
          reward |-> <<>>, feedback |-> <<>> ]

\* Changed: the test runs on the count of ten sessions plus the first
patrol_due_off_by_one(total_sessions) == total_sessions % PATROL_EVERY = 1

\* if total_sessions % 10 == 0
patrol_due(total_sessions) == total_sessions % PATROL_EVERY = 0

\* Changed: the counter is written back only when the log was empty
count_and_log_first_only(st, entry) ==
    append_session_log(
        [st EXCEPT !.total_sessions =
            IF st.session_logs = <<>> THEN @ + 1 ELSE @], entry)

\* total_sessions += 1; _append_session_log; save_state
count_and_log(st, entry) ==
    append_session_log([st EXCEPT !.total_sessions = @ + 1], entry)

evaluate_payload(st, p, session_id) ==
    IF validate_payload(p) # ""
    THEN [ state |-> st,
           ret |-> [NoRet EXCEPT !.op = "evaluate",
                                 !.error = validate_payload(p)] ]
    ELSE LET saved == count_and_log(st, new_log_entry(st, p, session_id))
             due == patrol_due(saved.total_sessions)
             pat == patrol(saved)
         IN  [ state |-> IF due THEN pat.state ELSE saved,
               ret |-> [NoRet EXCEPT !.op = "evaluate",
                          !.session_id = session_id,
                          !.auto_patrol = due,
                          !.adjusted = due /\ pat.ret.adjusted] ]

----------------------------------------------------------------------------
(* reco2/engine.py: record_feedback *)

FeedbackValues == {"good", "bad", "recalculate"}

\* R = 1.0 if good, 0.3 if recalculate, else -1.0
reward_of(fb) == IF fb = "good" THEN 10 ELSE IF fb = "recalculate" THEN 3 ELSE -10

\* Changed: the feedback value is not checked
validate_feedback_any_value(p) ==
    IF StripId(p.session_id) = 0 THEN "session_id_required"
    ELSE IF Strip(p.domain) = "" THEN "domain_required"
    ELSE ""

\* The 400 error returned before the state is loaded ("" when none is)
validate_feedback(p) ==
    IF StripId(p.session_id) = 0 THEN "session_id_required"
    ELSE IF Strip(p.domain) = "" THEN "domain_required"
    ELSE IF Strip(p.feedback) \notin FeedbackValues THEN "invalid_feedback"
    ELSE ""

\* Changed: the ledger is never consulted
is_duplicate_never(st, session_id) == FALSE

\* session_id in used
is_duplicate(st, session_id) == session_id \in st.used_session_ids

\* Changed: the step uses the eta of the default state
apply_reward_default_eta(st, domain, R) ==
    set_domain_weight(st, domain,
        get_domain_weight(st, domain) + ((default_state.eta * R) \div 10))

\* W_new = W_old + eta * R
apply_reward(st, domain, R) ==
    set_domain_weight(st, domain,
        get_domain_weight(st, domain) + ((st.eta * R) \div 10))

\* Changed: every entry of the log gets reward and feedback
backfill_all(logs, session_id, R, fb) ==
    [i \in 1..Len(logs) |->
        [logs[i] EXCEPT !.reward = <<R>>, !.feedback = <<fb>>]]

\* The last entry of the log with this session id gets reward and feedback
backfill(logs, session_id, R, fb) ==
    LET hits == {i \in 1..Len(logs) : logs[i].session_id = session_id}
    IN  IF hits = {} THEN logs
        ELSE LET i == CHOOSE h \in hits : \A g \in hits : g <= h
             IN  [logs EXCEPT ![i].reward = <<R>>, ![i].feedback = <<fb>>]

\* Changed: a session id that is in no log entry is refused
record_feedback_known_only(st, p) ==
    LET session_id == StripId(p.session_id)
        domain == Strip(p.domain)
        fb == Strip(p.feedback)
        R == reward_of(fb)
        base == [NoRet EXCEPT !.op = "feedback"]
    IN  IF validate_feedback(p) # ""
        THEN [ state |-> st,
               ret |-> [base EXCEPT !.error = validate_feedback(p)] ]
        ELSE IF is_duplicate(st, session_id)
        THEN [ state |-> st,
               ret |-> [base EXCEPT !.status = "duplicate_ignored"] ]
        ELSE IF \A i \in 1..Len(st.session_logs) :
                    st.session_logs[i].session_id # session_id
        THEN [ state |-> st,
               ret |-> [base EXCEPT !.error = "unknown_session"] ]
        ELSE LET st1 == [st EXCEPT !.used_session_ids = @ \cup {session_id}]
                 st2 == apply_reward(st1, domain, R)
                 st3 == [st2 EXCEPT !.session_logs =
                             backfill(@, session_id, R, fb)]
             IN  [ state |-> st3,
                   ret |-> [base EXCEPT !.status = "recorded"] ]

record_feedback(st, p) ==
    LET session_id == StripId(p.session_id)
        domain == Strip(p.domain)
        fb == Strip(p.feedback)
        R == reward_of(fb)
        base == [NoRet EXCEPT !.op = "feedback"]
    IN  IF validate_feedback(p) # ""
        THEN [ state |-> st,
               ret |-> [base EXCEPT !.error = validate_feedback(p)] ]
        ELSE IF is_duplicate(st, session_id)
        THEN [ state |-> st,
               ret |-> [base EXCEPT !.status = "duplicate_ignored"] ]
        ELSE LET st1 == [st EXCEPT !.used_session_ids = @ \cup {session_id}]
                 st2 == apply_reward(st1, domain, R)
                 st3 == [st2 EXCEPT !.session_logs =
                             backfill(@, session_id, R, fb)]
             IN  [ state |-> st3,
                   ret |-> [base EXCEPT !.status = "recorded"] ]

----------------------------------------------------------------------------
(* reco2/store.py: save_state writes a temporary file and renames it over  *)
(* the state file.  disk[i] tells whether the i-th save_state call of an   *)
(* operation succeeds.                                                     *)

AllSaved == <<TRUE, TRUE>>

\* Changed: the handler re-raises the error of the failed write
save_error_as_raised == "OSError"

\* What save_state raises when a write fails: its handler is
\* `except (OSError, IOError, json.JSONEncodeError)`, the json module has no
\* JSONEncodeError, so matching the handler raises AttributeError.
save_error == "AttributeError"

\* The file after save_state(st), and what the call raised
save_state(file, st, ok) ==
    IF ok THEN [ file |-> st, raised |-> "" ]
    ELSE [ file |-> file, raised |-> save_error ]

save_raised(op, raised) ==
    [NoRet EXCEPT !.op = op, !.error = raised, !.save_failed = TRUE]

patrol_io(st, disk) ==
    LET done == patrol(st)
        w == save_state(st, done.state, disk[1])
    IN  IF no_logs(st.session_logs) \/ w.raised = "" THEN done
        ELSE [ state |-> w.file, ret |-> save_raised("patrol", w.raised) ]

\* evaluate_payload from its first save_state call on
evaluate_saving(st, p, session_id, disk, saved) ==
    LET w1 == save_state(st, saved, disk[1])
        pat == patrol_io(saved, <<disk[2]>>)
    IN  IF w1.raised # ""
        THEN [ state |-> w1.file, ret |-> save_raised("evaluate", w1.raised) ]
        ELSE IF patrol_due(saved.total_sessions) /\ pat.ret.save_failed
        THEN [ state |-> pat.state,
               ret |-> save_raised("evaluate", pat.ret.error) ]
        ELSE evaluate_payload(st, p, session_id)

evaluate_payload_io(st, p, session_id, disk) ==
    IF validate_payload(p) # "" THEN evaluate_payload(st, p, session_id)
    ELSE Once(count_and_log(st, new_log_entry(st, p, session_id)),
              LAMBDA saved : evaluate_saving(st, p, session_id, disk, saved))

record_feedback_io(st, p, disk) ==
    LET done == record_feedback(st, p)
        w == save_state(st, done.state, disk[1])
    IN  IF done.ret.status # "recorded" \/ w.raised = "" THEN done
        ELSE [ state |-> w.file, ret |-> save_raised("feedback", w.raised) ]

----------------------------------------------------------------------------
(* Texts are sequences of tokens.  Each lexicon below holds the tokens of  *)
(* the model's vocabulary that occur in the list of the same name in the   *)
(* source, or that contain such a word ("zettaini" contains "zettai").     *)
(* Japanese words are written in romaji, and "zenkaku_!" is the full-width *)
(* exclamation mark.                                                       *)

\* reco2/input_gate.py
AMBIGUITY_JA == {"nanka"}
AMBIGUITY_EN == {"stuff"}
ASSERTION_JA == {"zettai", "zettaini", "kanarazu", "100%"}
ASSERTION_EN == {"definitely", "100%"}
EMOTION_JA == {"imasugu"}
EMOTION_EN == {"hurry"}
UNREALISTIC_JA == {"kanpekini"}
UNREALISTIC_EN == {"perfect"}
EXCLAMATIONS == {"!", "zenkaku_!"}

\* reco2/output_gate.py
ASSERT_TOKENS == {"kanarazu", "zettai", "zettaini", "100%", "definitely"}
PROVOCATIVE == {"baka", "idiot"}
EVIDENCE_MARKERS == {"source", "konkyo"}
CONTRADICTION_PAIRS ==
    { <<"kanarazu", "kamoshiremasen">>, <<"zettaini", "kanouseigaarimasu">>,
      <<"definitely", "might">> }

\* sum of t.count(w) over the words w
count_hits(text, words) == Cardinality({i \in 1..Len(text) : text[i] \in words})

\* Changed: the count is scaled and not saturated
saturating_score_linear(count, sensitivity) ==
    (count * sensitivity * 100000) \div 3

\* tanh(count / 3 * sensitivity), in units of 1e-6; sensitivity in tenths
saturating_score(count, sensitivity) ==
    TanhTable[Min(count * sensitivity, 240) + 1]

----------------------------------------------------------------------------
(* reco2/config.py: the keys of config.json that process() reads *)

DEFAULTS ==
    [ psi_regen_threshold |-> 500000, max_regen_attempts |-> 2,
      base_temperature |-> 700000,
      input_w_ambiguity |-> 20, input_w_assertion |-> 25,
      input_w_emotion |-> 30, input_w_unrealistic |-> 25,
      output_w_assertion |-> 30, output_w_evidence |-> 30,
      output_w_contradiction |-> 25, output_w_provocative |-> 15 ]

----------------------------------------------------------------------------
(* reco2/input_gate.py.  pre_d is in units of 1e-8. *)

\* round(x, 6) of a value in units of 1e-8, in units of 1e-6
round6(x) == (x + 50) \div 100

input_level(pre_d) ==
    IF pre_d >= 70000000 THEN "critical"
    ELSE IF pre_d >= 50000000 THEN "high"
    ELSE IF pre_d >= 30000000 THEN "moderate"
    ELSE "low"

input_action(level) ==
    CASE level = "critical" -> "cool_down"
      [] level = "high"     -> "conditional"
      [] level = "moderate" -> "clarify"
      [] OTHER              -> "proceed"

\* in tenths
input_t_mod(level) ==
    CASE level = "critical" -> 3
      [] level = "high"     -> 5
      [] level = "moderate" -> 7
      [] OTHER              -> 10

\* Changed: any two active categories escalate by 1.10
escalate_any_pair(pre_d, c_amb, c_ass, c_emo, c_unr) ==
    LET active == Cardinality({i \in 1..4 : <<c_amb, c_ass, c_emo, c_unr>>[i] > 0})
    IN  IF active >= 3 THEN Min(100000000, (pre_d \div 4) * 5)
        ELSE IF active = 2 THEN Min(100000000, (pre_d \div 10) * 11)
        ELSE pre_d

\* The escalation of pre_d (units of 1e-8) by the number of active categories
escalate(pre_d, c_amb, c_ass, c_emo, c_unr) ==
    LET active == Cardinality({i \in 1..4 : <<c_amb, c_ass, c_emo, c_unr>>[i] > 0})
    IN  IF active >= 3 THEN Min(100000000, (pre_d \div 4) * 5)
        ELSE IF active = 2 /\ c_emo > 0 /\ (c_ass > 0 \/ c_unr > 0)
        THEN Min(100000000, (pre_d \div 10) * 11)
        ELSE pre_d

input_analyze(text, cfg) ==
    LET c_amb == count_hits(text, AMBIGUITY_JA) + count_hits(text, AMBIGUITY_EN)
        c_ass == count_hits(text, ASSERTION_JA) + count_hits(text, ASSERTION_EN)
        ex == count_hits(text, EXCLAMATIONS)
        c_emo == count_hits(text, EMOTION_JA) + count_hits(text, EMOTION_EN)
                   + Min(3, ex)
        c_unr == count_hits(text, UNREALISTIC_JA) + count_hits(text, UNREALISTIC_EN)
        s_amb == saturating_score(c_amb, 11)
        s_ass == saturating_score(c_ass, 18)
        s_emo == saturating_score(c_emo, 20)
        s_unr == saturating_score(c_unr, 18)
        sum == s_amb * cfg.input_w_ambiguity + s_ass * cfg.input_w_assertion
                 + s_emo * cfg.input_w_emotion + s_unr * cfg.input_w_unrealistic
        pre_d == escalate(sum, c_amb, c_ass, c_emo, c_unr)
        level == input_level(pre_d)
    IN  [ scores |-> [ambiguity |-> s_amb, assertion_demand |-> s_ass,
                      emotional_pressure |-> s_emo, unrealistic |-> s_unr],
          pre_d |-> round6(pre_d), risk_level |-> level,
          action |-> input_action(level),
          temperature_modifier |-> input_t_mod(level),
          warnings |-> <<c_amb > 0, c_ass > 0, c_emo > 0, c_unr > 0>> ]

\* The guidance line rebuild_prompt puts before the input, as one token
Preamble(level) ==
    IF level = "moderate" THEN <<"[shishin]">> ELSE <<"[juuyou-shishin]">>

\* Changed: the guidance replaces the input
rebuild_prompt_guidance_only(user_input, analysis) ==
    LET level == get(analysis, "risk_level", "low")
    IN  CASE level = "critical" -> <<<<>>, "critical">>
          [] level = "low" -> <<user_input, "none">>
          [] level = "moderate" -> <<Preamble(level), "moderate">>
          [] OTHER -> <<Preamble(level), "high">>

\* rebuild_prompt(user_input, analysis): the prompt and its tag
rebuild_prompt(user_input, analysis) ==
    LET level == get(analysis, "risk_level", "low")
    IN  CASE level = "critical" -> <<<<>>, "critical">>
          [] level = "low" -> <<user_input, "none">>
          [] level = "moderate" ->
               <<Preamble(level) \o user_input, "moderate">>
          [] OTHER -> <<Preamble(level) \o user_input, "high">>

----------------------------------------------------------------------------
(* reco2/output_gate.py.  post_d is in units of 1e-8. *)

contradiction_hits(text) ==
    Cardinality({pr \in CONTRADICTION_PAIRS :
        count_hits(text, {pr[1]}) > 0 /\ count_hits(text, {pr[2]}) > 0})

output_level(post_d) ==
    IF post_d >= 70000000 THEN "critical"
    ELSE IF post_d >= 50000000 THEN "degraded"
    ELSE IF post_d >= 30000000 THEN "cautious"
    ELSE "healthy"

output_action(level) ==
    CASE level = "critical" -> "regenerate"
      [] level = "degraded" -> "soften"
      [] level = "cautious" -> "annotate"
      [] OTHER              -> "pass"

\* Changed: the deviation is taken off in full
psi_modifier_steep(post_d) ==
    (Max(30000000, 100000000 - post_d) + 50) \div 100

\* round(max(0.3, 1.0 - post_d * 0.7), 6), in units of 1e-6
psi_modifier(post_d) ==
    (Max(30000000, 100000000 - ((post_d * 7) \div 10)) + 50) \div 100

\* Changed: the gap grows with the number of assertion tokens
evidence_gap_per_token(assert_count, has_evidence) ==
    IF has_evidence THEN 0 ELSE assert_count

\* evidence_gap_count: 5 (saturated) for an assertion without evidence
evidence_gap(assert_count, has_evidence) ==
    IF assert_count > 0 /\ ~has_evidence THEN 5 ELSE 0

output_analyze(text, cfg) ==
    LET assert_count == count_hits(text, ASSERT_TOKENS)
        prov_count == count_hits(text, PROVOCATIVE)
        contra_hits == contradiction_hits(text)
        has_evidence == count_hits(text, EVIDENCE_MARKERS) > 0
        evidence_gap_count == evidence_gap(assert_count, has_evidence)
        s_assert == saturating_score(assert_count, 14)
        s_evgap == saturating_score(evidence_gap_count, 12)
        s_contra == saturating_score(contra_hits, 15)
        s_prov == saturating_score(prov_count, 13)
        post_d == s_assert * cfg.output_w_assertion + s_evgap * cfg.output_w_evidence
                    + s_contra * cfg.output_w_contradiction
                    + s_prov * cfg.output_w_provocative
        level == output_level(post_d)
    IN  [ scores |-> [assertion_density |-> s_assert, evidence_gap |-> s_evgap,
                      contradiction |-> s_contra, provocative |-> s_prov],
          post_d |-> round6(post_d), level |-> level,
          action |-> output_action(level),
          psi_modifier |-> psi_modifier(post_d),
          has_evidence |-> has_evidence ]

----------------------------------------------------------------------------
(* reco2/orchestrator.py: Orchestrator.process *)

\* What LLMAdapter.generate does at a call: it raises RuntimeError, or it
\* returns a text.
RaisesRuntimeError == <<"RuntimeError">>

\* Changed: the comparison is with the level below
short_circuits_high(in_analysis) == in_analysis.risk_level = "high"

\* if in_analysis.get("risk_level") == "critical"
short_circuits(in_analysis) == in_analysis.risk_level = "critical"

\* adj_temp = max(0.1, min(1.0, BASE_TEMPERATURE * t_mod)), in units of 1e-6
initial_temperature(cfg, t_mod) ==
    Max(100000, Min(1000000, (cfg.base_temperature * t_mod) \div 10))

\* Changed: the retry temperature has no floor
cooled_no_floor(temp) == (temp * 6) \div 10

\* adj_temp = max(0.1, adj_temp * 0.6)
cooled(temp) == Max(100000, (temp * 6) \div 10)

\* Changed: one pass more than configured
loop_bound_one_more(cfg) == Max(1, cfg.max_regen_attempts) + 1

\* range(max(1, self.MAX_REGEN_ATTEMPTS))
loop_bound(cfg) == Max(1, cfg.max_regen_attempts)

\* Changed: the failure is not caught as one; what came back is used as text
raised_never(out) == FALSE

\* except RuntimeError
raised(out) == out = RaisesRuntimeError

\* if float(out_analysis.get("psi_modifier", 1.0)) >= self.PSI_REGEN_THRESHOLD
accepted(an, cfg) == an.psi_modifier >= cfg.psi_regen_threshold

\* The loop from its i-th pass on: outs[i] is what the adapter does at the
\* i-th call.  acc collects what the passes have done so far.
RECURSIVE regen_loop(_, _, _, _)
regen_loop(cfg, outs, i, acc) ==
    IF i > loop_bound(cfg) THEN acc
    ELSE LET called == [acc EXCEPT !.attempts = @ + 1,
                           !.temps = Append(@, acc.temp),
                           !.calls = Append(@,
                               IF outs[i] = RaisesRuntimeError
                               THEN "raised" ELSE "returned")]
         IN  IF raised(outs[i])
             THEN [called EXCEPT !.failed = TRUE]
             ELSE LET an == output_analyze(outs[i], cfg)
                      seen == [called EXCEPT !.text = outs[i],
                                  !.analysis = <<an>>,
                                  !.psis = Append(@, an.psi_modifier)]
                  IN  IF accepted(an, cfg)
                      THEN seen
                      ELSE regen_loop(cfg, outs, i + 1,
                               [seen EXCEPT !.regenerated = TRUE,
                                            !.temp = cooled(acc.temp)])

loop_start(temp) ==
    [ attempts |-> 0, calls |-> <<>>, temps |-> <<>>, psis |-> <<>>,
      regenerated |-> FALSE, failed |-> FALSE, temp |-> temp,
      text |-> <<>>, analysis |-> <<>> ]

\* Changed: the domain argument is not written into the context
bridge_context_own_domain(domain, context) ==
    [ domain |-> get(context, "domain", ""),
      confidence |-> get(context, "confidence", 70),
      domain_known |-> get(context, "domain_known", FALSE),
      missing_fields |-> get(context, "missing_fields", 0),
      warnings |-> get(context, "warnings", 0) ]

\* ctx = dict(context or {}); ctx["domain"] = domain; confidence 0.7 unless
\* given.  The other keys are written as evaluate_payload reads them.
bridge_context(domain, context) ==
    [ domain |-> domain, confidence |-> get(context, "confidence", 70),
      domain_known |-> get(context, "domain_known", FALSE),
      missing_fields |-> get(context, "missing_fields", 0),
      warnings |-> get(context, "warnings", 0) ]

\* Changed: the evidence median is the full score 1.0
bridge_payload_full_median(psi_mod, domain, context) ==
    [ inference_ok |-> TRUE, evidence_ok |-> TRUE, context_ok |-> TRUE,
      inference |-> [x \in {"integrity"} |-> psi_mod],
      evidence |-> [x \in {"integrity"} |-> 1000000],
      context |-> bridge_context(domain, context) ]

\* The synthetic request: psi_modifier as inference and as evidence median
bridge_payload(psi_mod, domain, context) ==
    [ inference_ok |-> TRUE, evidence_ok |-> TRUE, context_ok |-> TRUE,
      inference |-> [x \in {"integrity"} |-> psi_mod],
      evidence |-> [x \in {"integrity"} |-> psi_mod],
      context |-> bridge_context(domain, context) ]

\* reco2/output_gate.py: the replacement of a token by _SOFTEN_JA
soften_ja(token) ==
    CASE token = "kanarazu"     -> "ookunobaai"
      [] token = "zettaini"     -> "hobo"
      [] token = "machigainaku" -> "osoraku"
      [] token = "kakujitsuni"  -> "takaikakuritsude"
      [] OTHER                  -> token

\* the replacement of a lower-case token by _SOFTEN_EN
soften_en(token) ==
    CASE token = "definitely" -> "likely"
      [] token = "absolutely" -> "very likely"
      [] token = "certainly"  -> "probably"
      [] token = "always"     -> "typically"
      [] token = "never"      -> "rarely"
      [] OTHER                -> token

\* soften(text): the Japanese replacements, lower(), the English ones; the
\* lower-cased text is what it returns
soften(text) ==
    [i \in 1..Len(text) |-> soften_en(Lower(soften_ja(text[i])))]

\* The two disclaimers, each as one token
Disclaimer(action) ==
    IF action = "annotate" THEN <<"(chuu)">> ELSE <<"(keikoku)">>

\* Changed: every action but pass prepends the disclaimer
apply_action_annotate_all(action, text) ==
    IF action = "pass" THEN text ELSE Disclaimer(action) \o text

\* text_out after the if / elif chain on the final action
apply_action(action, text) ==
    CASE action = "soften"                   -> soften(text)
      [] action \in {"annotate", "regenerate"} -> Disclaimer(action) \o text
      [] OTHER                               -> text

\* _cool_down_result: the cool-down header and one line per warning
cool_down_message(in_analysis) ==
    LET names == <<"aimai", "dantei", "kanjou", "higenjitsu">>
        lines == SelectSeq(names,
                     LAMBDA n : \E i \in 1..4 :
                         names[i] = n /\ in_analysis.warnings[i])
    IN  <<"reikyaku_mode">> \o (IF lines = <<>> THEN <<"(none)">> ELSE lines)

\* The exception class of an error of evaluate_payload
error_class(error) ==
    IF error \in {"Invalid payload types", "context.domain is required"}
    THEN "ValueError" ELSE error

\* except (OSError, IOError, ValueError)
falls_back(error) == error_class(error) \in {"OSError", "IOError", "ValueError"}

\* What process() returns once evaluate_payload is through
bridged(made, run, ev) ==
    IF ev.ret.error # "" /\ ~falls_back(ev.ret.error)
    THEN [ state |-> ev.state,
           ret |-> [made EXCEPT !.error = ev.ret.error,
                       !.save_failed = ev.ret.save_failed] ]
    ELSE [ state |-> ev.state,
           ret |-> [made EXCEPT
              !.session_id = ev.ret.session_id,
              !.eval_id = ev.ret.session_id,
              !.auto_patrol = ev.ret.auto_patrol,
              !.adjusted = ev.ret.adjusted,
              !.save_failed = ev.ret.save_failed,
              !.regenerated = run.regenerated,
              !.annotated =
                  run.analysis[1].action \in {"annotate", "regenerate"},
              !.action = run.analysis[1].action,
              !.response = apply_action(run.analysis[1].action, run.text),
              !.generated = run.text,
              !.temperature_used = run.temp] ]

\* process() from the end of the regeneration loop on
after_loop(st, session_id, domain, context, disk, base, run) ==
    LET made == [base EXCEPT !.attempts = run.attempts,
                    !.calls = run.calls, !.temps = run.temps,
                    !.psis = run.psis]
    IN  IF run.failed
        THEN [ state |-> st,
               ret |-> [made EXCEPT !.error = "LLM generation failed"] ]
        ELSE Once(evaluate_payload_io(st,
                      bridge_payload(run.analysis[1].psi_modifier, domain,
                                     context),
                      session_id, disk),
                  LAMBDA ev : bridged(made, run, ev))

\* Changed: the cool-down response is counted as a session
cool_down_result_counted(st, base, in_analysis) ==
    [ state |-> [st EXCEPT !.total_sessions = @ + 1],
      ret |-> [base EXCEPT !.response = cool_down_message(in_analysis)] ]

\* return self._cool_down_result(in_analysis): the engine is not called
cool_down_result(st, base, in_analysis) ==
    [ state |-> st,
      ret |-> [base EXCEPT !.response = cool_down_message(in_analysis)] ]

process_io(st, session_id, text, domain, context, cfg, outs, disk) ==
    LET in_analysis == input_analyze(text, cfg)
        base == [NoRet EXCEPT !.op = "process",
                    !.risk_level = in_analysis.risk_level,
                    !.domain = domain,
                    !.max_regen = cfg.max_regen_attempts,
                    !.threshold = cfg.psi_regen_threshold,
                    !.base_temperature = cfg.base_temperature,
                    !.t_mod = in_analysis.temperature_modifier]
        adj_temp == initial_temperature(cfg, in_analysis.temperature_modifier)
    IN  IF short_circuits(in_analysis)
        THEN cool_down_result(st, base, in_analysis)
        ELSE Once(regen_loop(cfg, outs, 1, loop_start(adj_temp)),
                  LAMBDA run : after_loop(st, session_id, domain, context,
                                          disk, base, run))

\* process() when every save succeeds
process(st, session_id, text, domain, context, cfg, outs) ==
    process_io(st, session_id, text, domain, context, cfg, outs, AllSaved)

----------------------------------------------------------------------------
(* reco2/store.py and reco2/engine.py, step by step, for calls that run on  *)
(* several worker threads.  No lock is held anywhere: a call loads the      *)
(* state, computes, and save_state opens the one temporary file            *)
(* state_path() + ".tmp", writes the blob when the file object is closed,  *)
(* and renames the temporary file over the state file.                     *)
(*                                                                         *)
(* files.sp is the form of the state file ("json", "empty", "corrupt"),    *)
(* files.tmp the form of the temporary file ("absent" when there is none), *)
(* files.tmp_blob the state written in it, sp_len and tmp_len the lengths  *)
(* of the two files in bytes, files.saves the number of save_state calls   *)
(* that have ended.  `state` is what load_state() returns.                 *)
(* A thread's descriptor is on the file it opened: "tmp"; once another     *)
(* thread has renamed that file it is on the state file: "state"; once the *)
(* state file has been replaced again it is on no path: "orphan".          *)

Workers == {1, 2}

RECURSIVE names_len(_)
names_len(names) ==
    IF names = {} THEN 0
    ELSE LET d == CHOOSE x \in names : TRUE
         IN  14 + Len(d) + names_len(names \ {d})

\* The length in bytes of json.dump(st, indent=2): 326 for the default
\* state, about 270 more for a log entry, 92 for a used session id, 14 for a
\* domain weight, plus the domain names; numbers at their usual width.
blob_len(st) ==
    326 + SeqSum([i \in 1 .. Len(st.session_logs) |->
                     270 + Len(st.session_logs[i].domain)])
        + 92 * Cardinality(st.used_session_ids)
        + names_len(DOMAIN st.domains)

NoFiles ==
    [ sp |-> "json", sp_len |-> blob_len(default_state),
      tmp |-> "absent", tmp_len |-> 0, tmp_blob |-> default_state,
      saves |-> 0 ]

Idle ==
    [ op |-> "none", pc |-> "idle", arg |-> <<>>, served |-> 0,
      next |-> default_state,   \* the state the call is about to save
      auto |-> FALSE,           \* inside patrol(manual=False)
      fd |-> "none",
      raced |-> {},             \* calls that had loaded and not saved when
                                \* this one loaded
      saved_at |-> 0,           \* files.saves when its save_state ended
      ret |-> NoRet ]

\* json.load of the state file; a file that does not parse gives defaults
load_state(form, blob) == IF form = "json" THEN blob ELSE default_state

\* The validation a call makes before it loads the state
validate_request(op, arg) ==
    CASE op = "evaluate" -> validate_payload(arg)
      [] op = "feedback" -> validate_feedback(arg)
      [] OTHER -> ""

InFlight(t) ==
    { <<u, requests[u].served>> :
        u \in { w \in Workers \ {t} :
                  requests[w].pc \in {"loaded", "opened", "written"} } }

\* The call after load_state() and the computation up to save_state
loaded(req, st, session_id, rivals) ==
    LET ev == count_and_log(st, new_log_entry(st, req.arg, session_id))
        fb == record_feedback(st, req.arg)
        pa == patrol(st)
        go == [req EXCEPT !.pc = "loaded", !.raced = rivals]
    IN  CASE req.pc = "patrol" ->
               [go EXCEPT !.next = pa.state, !.raced = req.raced,
                          !.ret.adjusted = pa.ret.adjusted]
          [] req.pc = "start" /\ req.op = "evaluate" ->
               [go EXCEPT !.next = ev,
                          !.ret = [NoRet EXCEPT !.op = "evaluate",
                                                !.session_id = session_id]]
          [] req.pc = "start" /\ req.op = "feedback" ->
               IF fb.ret.status = "recorded"
               THEN [go EXCEPT !.next = fb.state, !.ret = fb.ret]
               ELSE [req EXCEPT !.pc = "done", !.ret = fb.ret]
          [] req.pc = "start" /\ req.op = "patrol" ->
               IF no_logs(st.session_logs)
               THEN [req EXCEPT !.pc = "done", !.ret = pa.ret]
               ELSE [go EXCEPT !.next = pa.state, !.ret = pa.ret]

\* os.open(tmp, O_WRONLY | O_CREAT | O_TRUNC)
open_tmp(f) ==
    [f EXCEPT !.tmp = "empty", !.tmp_len = 0, !.tmp_blob = default_state]

\* The form of a file of old_len bytes after new_len bytes are written at
\* offset 0: the blob alone, or the blob followed by the old tail
written(old_len, new_len) == IF new_len >= old_len THEN "json" ELSE "corrupt"

\* os.replace(tmp, sp): the descriptors follow their files
renamed(fd) ==
    CASE fd = "tmp" -> "state"
      [] fd = "state" -> "orphan"
      [] OTHER -> fd

----------------------------------------------------------------------------
(* reco2/store.py: what save_state writes and load_state reads back.  A     *)
(* JSON text is the tree of its values: [t |-> "number", v |-> n],         *)
(* [t |-> "string", v |-> s], [t |-> "null"], [t |-> "array", v |-> seq],  *)
(* [t |-> "object", v |-> function from member names to values].  A        *)
(* session id is written as its uuid text, a time as its ISO text.         *)

JNumber(n) == [t |-> "number", v |-> n]

JString(x) == [t |-> "string", v |-> x]

JNull == [t |-> "null"]

JArray(seq) == [t |-> "array", v |-> seq]

JObject(f) == [t |-> "object", v |-> f]

\* json.dump of a value that is None or a float / a string
dump_optional(opt, J(_)) == IF opt = <<>> THEN JNull ELSE J(opt[1])

dump_entry(e) ==
    JObject([ session_id |-> JString(e.session_id),
              domain |-> JString(e.domain),
              D |-> JNumber(e.D), T |-> JNumber(e.T), psi |-> JNumber(e.psi),
              verdict |-> JString(e.verdict),
              reward |-> dump_optional(e.reward, JNumber),
              feedback |-> dump_optional(e.feedback, JString) ])

\* json.dump(state, f, ensure_ascii=False, indent=2)
json_dump(st) ==
    JObject([ f \in DOMAIN st |->
        CASE f = "domains" ->
               JObject([d \in DOMAIN st.domains |-> JNumber(st.domains[d])])
          [] f = "used_session_ids" ->
               JObject([id \in st.used_session_ids |-> JString("ts")])
          [] f = "session_logs" ->
               JArray([i \in 1 .. Len(st.session_logs) |->
                          dump_entry(st.session_logs[i])])
          [] OTHER -> JNumber(st[f]) ])

\* Changed: null is read back as the number 0
load_optional_zero(j) == IF j.t = "null" THEN <<0>> ELSE <<j.v>>

\* json.load of null or a value
load_optional(j) == IF j.t = "null" THEN <<>> ELSE <<j.v>>

load_entry(j) ==
    [ f \in DOMAIN j.v |->
        IF f \in {"reward", "feedback"} THEN load_optional(j.v[f])
        ELSE j.v[f].v ]

\* json.load(f)
json_load(j) ==
    [ f \in DOMAIN j.v |->
        CASE f = "domains" ->
               [d \in DOMAIN j.v[f].v |-> j.v[f].v[d].v]
          [] f = "used_session_ids" -> DOMAIN j.v[f].v
          [] f = "session_logs" ->
               [i \in 1 .. Len(j.v[f].v) |-> load_entry(j.v[f].v[i])]
          [] OTHER -> j.v[f].v ]

\* state["updated_at"] = _now_iso()
stamped(st, now) ==
    [ f \in DOMAIN st \cup {"updated_at"} |->
        IF f = "updated_at" THEN now ELSE st[f] ]

\* The fields of the state the engine computes with
engine_fields(st) == [f \in DOMAIN default_state |-> st[f]]

----------------------------------------------------------------------------
(* app.py: the API key check that runs before every request.  A path is   *)
(* the sequence of its segments ("/api/status" is <<"api", "status">>),    *)
(* env holds the environment variables as they are set, a request its     *)
(* path, whether its session has r3, and its headers.                      *)

DefaultBypass ==
    { <<>>, <<"r3">>, <<"health">>, <<"favicon.ico">>,
      <<"manifest.webmanifest">>, <<"static", "manifest.webmanifest">>,
      <<"service-worker.js">>, <<"static", "service-worker.js">> }

\* _get_api_key_config(); API_KEY_BYPASS_PATHS, when set, replaces the list
get_api_key_config(env) ==
    [ api_key |-> Strip(env.API_KEY),
      mode |-> Lower(Strip(env.API_KEY_MODE)),
      header |-> Strip(env.API_KEY_HEADER),
      bypass_paths |-> IF env.API_KEY_BYPASS_PATHS # {}
                       THEN env.API_KEY_BYPASS_PATHS ELSE DefaultBypass,
      enabled |-> Lower(Strip(env.API_KEY_MODE)) = "enforce"
                      /\ Strip(env.API_KEY) # "",
      has_key |-> Strip(env.API_KEY) # "" ]

\* path.startswith(prefix + "/")
under(path, prefix) ==
    /\ Len(path) > Len(prefix)
    /\ SubSeq(path, 1, Len(prefix)) = prefix

should_bypass_auth(cfg, path) ==
    \/ path \in cfg.bypass_paths
    \/ under(path, <<"static">>) /\ <<"static", "*">> \in cfg.bypass_paths

\* request.path.startswith(_pwa_paths)
pwa_path(path) ==
    \/ under(path, <<"api", "r3">>)
    \/ /\ Len(path) >= 2 /\ path[1] = "api"
       /\ path[2] \in {"status", "logs", "feedback", "system", "agents",
                       "agent-commands"}
    \/ /\ Len(path) >= 3
       /\ SubSeq(path, 1, 3) = <<"api", "config", "test-mode">>

\* request.headers.get(name, "").strip()
header_value(headers, name) == Strip(get(headers, name, ""))

\* if not key or key != cfg["api_key"]
rejects(cfg, key) == key = "" \/ key # cfg.api_key

\* check_api_key: 401, or 0 when the request goes on to its view
check_api_key(env, req) ==
    LET cfg == get_api_key_config(env)
    IN  IF cfg.mode # "enforce" THEN 0
        ELSE IF should_bypass_auth(cfg, req.path) THEN 0
        ELSE IF ~under(req.path, <<"api">>) THEN 0
        ELSE IF req.r3 /\ pwa_path(req.path) THEN 0
        ELSE IF rejects(cfg, header_value(req.headers, cfg.header)) THEN 401
        ELSE 0

\* api_r3_chat's own check before it calls process
r3_chat_check(env, req) ==
    LET expected_key == Strip(env.API_KEY)
        api_key == header_value(req.headers, Strip(env.API_KEY_HEADER))
    IN  IF ~req.r3 /\ Lower(Strip(env.API_KEY_MODE)) = "enforce"
            /\ (expected_key = "" \/ api_key = "" \/ api_key # expected_key)
        THEN 401 ELSE 0

\* The status the client gets: 401 from a check, 200 from the view
respond(env, req) ==
    IF check_api_key(env, req) # 0 THEN check_api_key(env, req)
    ELSE IF req.path = <<"api", "r3", "chat">> /\ r3_chat_check(env, req) # 0
    THEN r3_chat_check(env, req)
    ELSE 200

----------------------------------------------------------------------------
(* The calls *)

Evaluate(p) ==
    LET r == evaluate_payload(state, p, uuid_count + 1)
    IN  /\ state' = r.state
        /\ uuid_count' = IF r.ret.error = "" THEN uuid_count + 1 ELSE uuid_count
        /\ last' = r.ret
        /\ UNCHANGED <<n_patrol, files, requests, agent>>

RecordFeedback(p) ==
    LET r == record_feedback(state, p)
    IN  /\ state' = r.state
        /\ last' = r.ret
        /\ UNCHANGED <<uuid_count, n_patrol, files, requests, agent>>

Process(text, domain, context, cfg, outs) ==
    LET r == process(state, uuid_count + 1, text, domain, context, cfg, outs)
    IN  /\ state' = r.state
        /\ uuid_count' = IF r.ret.session_id # 0 THEN uuid_count + 1
                          ELSE uuid_count
        /\ last' = r.ret
        /\ UNCHANGED <<n_patrol, files, requests, agent>>

\* The operations with save_state calls that may fail.  A session id whose
\* session was not saved is drawn again: it is as fresh as any other.
EvaluateIO(p, disk) ==
    \E r \in {evaluate_payload_io(state, p, uuid_count + 1, disk)} :
        /\ state' = r.state
        /\ uuid_count' = IF r.state.total_sessions > state.total_sessions
                          THEN uuid_count + 1 ELSE uuid_count
        /\ last' = r.ret
        /\ UNCHANGED <<n_patrol, files, requests, agent>>

RecordFeedbackIO(p, disk) ==
    \E r \in {record_feedback_io(state, p, disk)} :
        /\ state' = r.state
        /\ last' = r.ret
        /\ UNCHANGED <<uuid_count, n_patrol, files, requests, agent>>

PatrolIO(disk) ==
    \E r \in {patrol_io(state, disk)} :
        /\ state' = r.state
        /\ last' = r.ret
        /\ n_patrol' = Min(n_patrol + 1, MaxPatrols)
        /\ UNCHANGED <<uuid_count, files, requests, agent>>

ProcessIO(text, domain, context, cfg, outs, disk) ==
    \E r \in {process_io(state, uuid_count + 1, text, domain, context, cfg,
                       outs, disk)} :
        /\ state' = r.state
        /\ uuid_count' = IF r.state.total_sessions > state.total_sessions
                          THEN uuid_count + 1 ELSE uuid_count
        /\ last' = r.ret
        /\ UNCHANGED <<n_patrol, files, requests, agent>>

Patrol ==
    LET r == patrol(state)
    IN  /\ state' = r.state
        /\ last' = r.ret
        /\ n_patrol' = Min(n_patrol + 1, MaxPatrols)
        /\ UNCHANGED <<uuid_count, files, requests, agent>>

\* save_state(st) at time now, then load_state()
SaveLoad(st, now) ==
    \E text \in {json_dump(stamped(st, now))} :
        /\ last' = [ op |-> "save_load", saved |-> st, now |-> now,
                     loaded |-> json_load(text) ]
        /\ state' = engine_fields(json_load(text))
        /\ UNCHANGED <<uuid_count, n_patrol, files, requests, agent>>

\* One HTTP request under the environment env
Request(env, req) ==
    /\ last' = [ op |-> "request", env |-> env, req |-> req,
                 status |-> respond(env, req),
                 enabled |-> get_api_key_config(env).enabled ]
    /\ UNCHANGED <<state, uuid_count, n_patrol, files, requests, agent>>

\* input_gate.analyze(text) with the weights of cfg
AnalyzeInput(text, cfg) ==
    /\ last' = [ op |-> "input_analyze", text |-> text, cfg |-> cfg,
                 result |-> input_analyze(text, cfg) ]
    /\ UNCHANGED <<state, uuid_count, n_patrol, files, requests, agent>>

\* input_gate.rebuild_prompt(text, analysis)
RebuildPrompt(text, analysis) ==
    /\ last' = [ op |-> "rebuild_prompt", text |-> text,
                 analysis |-> analysis,
                 prompt |-> rebuild_prompt(text, analysis)[1],
                 tag |-> rebuild_prompt(text, analysis)[2] ]
    /\ UNCHANGED <<state, uuid_count, n_patrol, files, requests, agent>>

\* output_gate.analyze(text) with the weights of cfg
AnalyzeOutput(text, cfg) ==
    /\ last' = [ op |-> "output_analyze", text |-> text,
                 result |-> output_analyze(text, cfg) ]
    /\ UNCHANGED <<state, uuid_count, n_patrol, files, requests, agent>>

\* A request reaches worker t; a malformed one is answered at once
Arrive(t, op, arg) ==
    LET err == validate_request(op, arg)
        req == [Idle EXCEPT !.op = op, !.arg = arg,
                            !.served = requests[t].served + 1]
    IN  /\ requests[t].pc \in {"idle", "done"}
        /\ IF err = ""
           THEN /\ requests' = [requests EXCEPT ![t] =
                                   [req EXCEPT !.pc = "start"]]
                /\ UNCHANGED last
           ELSE /\ requests' = [requests EXCEPT ![t] =
                                   [req EXCEPT !.pc = "done",
                                        !.ret = [NoRet EXCEPT !.op = op,
                                                              !.error = err]]]
                /\ last' = [NoRet EXCEPT !.op = op, !.error = err]
        /\ UNCHANGED <<state, uuid_count, n_patrol, files, agent>>

Load(t) ==
    /\ requests[t].pc \in {"start", "patrol"}
    /\ \E req \in {loaded(requests[t], load_state(files.sp, state),
                          uuid_count + 1, InFlight(t))} :
        /\ requests' = [requests EXCEPT ![t] = req]
        /\ uuid_count' = IF requests[t].pc = "start" /\ req.op = "evaluate"
                          THEN uuid_count + 1 ELSE uuid_count
        /\ last' = IF req.pc = "done" THEN req.ret ELSE last
        /\ UNCHANGED <<state, n_patrol, files, agent>>

OpenTmp(t) ==
    /\ requests[t].pc = "loaded"
    /\ files' = open_tmp(files)
    /\ requests' = [requests EXCEPT ![t].pc = "opened", ![t].fd = "tmp"]
    /\ UNCHANGED <<state, uuid_count, n_patrol, last, agent>>

\* json.dump into the buffered file object; the bytes reach the file when
\* the with-block closes it
WriteTmp(t) ==
    LET req == requests[t]
        old_len == IF req.fd = "tmp" THEN files.tmp_len ELSE files.sp_len
        new_len == blob_len(req.next)
        form == written(old_len, new_len)
        blob == IF form = "json" THEN req.next ELSE default_state
    IN  /\ req.pc = "opened"
        /\ files' = CASE req.fd = "tmp" ->
                           [files EXCEPT !.tmp = form, !.tmp_blob = blob,
                                         !.tmp_len = Max(old_len, new_len)]
                      [] req.fd = "state" ->
                           [files EXCEPT !.sp = form,
                                         !.sp_len = Max(old_len, new_len)]
                      [] OTHER -> files
        /\ state' = IF req.fd = "state" THEN blob ELSE state
        /\ requests' = [requests EXCEPT ![t].pc = "written",
                                        ![t].fd = "none"]
        /\ UNCHANGED <<uuid_count, n_patrol, last, agent>>

ReplaceTmp(t) ==
    LET req == requests[t]
        again == req.op = "evaluate" /\ ~req.auto
                     /\ patrol_due(req.next.total_sessions)
        failed == [req EXCEPT !.pc = "done", !.saved_at = files.saves + 1,
                              !.ret = save_raised(req.op, save_error)]
        saved == [req EXCEPT !.pc = IF again THEN "patrol" ELSE "done",
                             !.auto = again, !.ret.auto_patrol = again,
                             !.saved_at = files.saves + 1]
    IN  /\ req.pc = "written"
        /\ IF files.tmp = "absent"
           THEN /\ requests' = [requests EXCEPT ![t] = failed]
                /\ files' = [files EXCEPT !.saves = @ + 1]
                /\ last' = failed.ret
                /\ UNCHANGED state
           ELSE /\ requests' =
                      [u \in Workers |->
                          IF u = t THEN saved
                          ELSE [requests[u] EXCEPT !.fd = renamed(@)]]
                /\ files' = [ sp |-> files.tmp, sp_len |-> files.tmp_len,
                              tmp |-> "absent", tmp_len |-> 0,
                              tmp_blob |-> default_state,
                              saves |-> files.saves + 1 ]
                /\ state' = load_state(files.tmp, files.tmp_blob)
                /\ last' = IF again THEN last ELSE saved.ret
        /\ UNCHANGED <<uuid_count, n_patrol, agent>>


----------------------------------------------------------------------------
(* The requests of the model *)

Context(domain, confidence, known, missing, warnings) ==
    [ domain |-> domain, confidence |-> confidence, domain_known |-> known,
      missing_fields |-> missing, warnings |-> warnings ]

Map1(key, v) == [x \in {key} |-> v]

Payload(inference, evidence, context) ==
    [ inference_ok |-> TRUE, evidence_ok |-> TRUE, context_ok |-> TRUE,
      inference |-> inference, evidence |-> evidence, context |-> context ]

\* tests/test_engine.py: D = 0.1, a known domain
PayloadBasic(domain) ==
    Payload(Map1("a", 700000), Map1("a", 600000),
            Context(domain, 70, TRUE, 0, 0))

\* tests/test_engine.py (test_patrol_clamp): D = 10, low confidence
PayloadFar(domain) ==
    Payload(Map1("a", 10000000), Map1("a", 0), Context(domain, 10, FALSE, 0, 3))

\* inference and evidence agree: D = 0
PayloadExact(domain) ==
    Payload(Map1("a", 500000), Map1("a", 500000), Context(domain, 70, FALSE, 0, 0))

\* no common key: the distance runs over the union of the keys
PayloadDisjoint(domain) ==
    Payload(Map1("a", 500000), Map1("b", 500000), Context(domain, 70, FALSE, 1, 0))

BadShapes ==
    { [PayloadBasic("x") EXCEPT !.inference_ok = FALSE],
      [PayloadBasic("x") EXCEPT !.evidence_ok = FALSE],
      [PayloadBasic("x") EXCEPT !.context_ok = FALSE] }

EvalPayloads ==
    BadShapes \cup {PayloadBasic(d) : d \in {"", " ", "x", " x "}}
              \cup {PayloadFar("y")}

\* The text of no uuid4() draw
ForeignId == -1

Feedback(id, pad, domain, fb) ==
    [ session_id |-> [id |-> id, pad |-> pad], domain |-> domain,
      feedback |-> fb ]

\* Feedback on the sessions issued so far and on a foreign id, and the
\* malformed requests
FeedbackPayloads(issued) ==
    { Feedback(id, FALSE, v[1], v[2]) :
        id \in (1..issued) \cup {ForeignId},
        v \in {<<"x", "good">>, <<"x", "bad">>, <<"y", "recalculate">>} }
    \cup { Feedback(id, TRUE, " x ", " good ") : id \in 1..issued }
    \cup { Feedback(0, FALSE, "x", "good"), Feedback(0, TRUE, "x", "good"),
           Feedback(1, FALSE, "", "good"), Feedback(1, FALSE, " ", "bad"),
           Feedback(1, FALSE, "x", "great"), Feedback(1, FALSE, "y", "") }

\* A feedback that would be recorded
WouldRecord(p) ==
    validate_feedback(p) = "" /\ ~is_duplicate(state, StripId(p.session_id))

----------------------------------------------------------------------------
(* The PC agent (agent/common): command validation and the pull loop *)

\* load_config's defaults for the control and watch sections
DEFAULT_CONFIG ==
    [ apply_enabled |-> FALSE, safe_modes |-> {"NORMAL", "SAFE"},
      processes |-> {} ]

\* The keys of ALLOWED_COMMANDS
ALLOWED_COMMANDS ==
    { "SET_MODE", "SET_RATE_LIMIT", "NOTIFY_OPS", "RESTART_PROCESS",
      "STOP_PROCESS", "ROLLBACK" }

\* The requires_apply_enabled column of ALLOWED_COMMANDS
requires_apply_enabled(cmd_type) ==
    cmd_type \in { "SET_RATE_LIMIT", "RESTART_PROCESS", "STOP_PROCESS",
                   "ROLLBACK" }

\* allowed_values: only SET_MODE has any, for its parameter mode
allowed_values(cmd_type) ==
    IF cmd_type = "SET_MODE" THEN {"NORMAL", "SAFE", "LOCKED"} ELSE {}

STRONG_COMMANDS == {"RESTART_PROCESS", "STOP_PROCESS", "ROLLBACK"}

is_strong_command(cmd_type) == cmd_type \in STRONG_COMMANDS

\* A payload is the pair of parameters the checks read: mode and process,
\* "" standing for a parameter that is absent
validate_command_open(cmd_type, payload, config) ==
    IF cmd_type \notin ALLOWED_COMMANDS
    THEN [valid |-> FALSE, reason |-> "not_in_allowlist"]
    ELSE IF payload.mode # ""
              /\ allowed_values(cmd_type) # {}
              /\ payload.mode \notin allowed_values(cmd_type)
    THEN [valid |-> FALSE, reason |-> "invalid_value"]
    ELSE IF cmd_type = "SET_MODE" /\ payload.mode \notin config.safe_modes
              /\ payload.mode # "LOCKED"
    THEN [valid |-> FALSE, reason |-> "not_in_safe_modes"]
    ELSE [valid |-> TRUE, reason |-> "OK"]

validate_command(cmd_type, payload, config) ==
    IF cmd_type \notin ALLOWED_COMMANDS
    THEN [valid |-> FALSE, reason |-> "not_in_allowlist"]
    ELSE IF requires_apply_enabled(cmd_type) /\ ~config.apply_enabled
    THEN [valid |-> FALSE, reason |-> "requires_apply_enabled"]
    ELSE IF payload.mode # ""
              /\ allowed_values(cmd_type) # {}
              /\ payload.mode \notin allowed_values(cmd_type)
    THEN [valid |-> FALSE, reason |-> "invalid_value"]
    ELSE IF cmd_type = "SET_MODE" /\ payload.mode \notin config.safe_modes
              /\ payload.mode # "LOCKED"
    THEN [valid |-> FALSE, reason |-> "not_in_safe_modes"]
    ELSE [valid |-> TRUE, reason |-> "OK"]

\* _restart_process and _stop_process: the process has to be named and
\* configured; os_ok is the return code of the shell command being 0
run_process(payload, config, os_ok) ==
    CASE payload.process = "" ->
             [success |-> FALSE, error |-> "missing_process", mode |-> ""]
      [] payload.process \notin config.processes ->
             [success |-> FALSE, error |-> "not_in_watch_list", mode |-> ""]
      [] OTHER ->
             [success |-> os_ok,
              error |-> IF os_ok THEN "" ELSE "return_code", mode |-> ""]

execute_command(cmd_type, payload, config, os_ok) ==
    CASE cmd_type = "SET_MODE" ->
             [success |-> TRUE, error |-> "",
              mode |-> IF payload.mode = "" THEN "NORMAL" ELSE payload.mode]
      [] cmd_type \in {"SET_RATE_LIMIT", "NOTIFY_OPS", "ROLLBACK"} ->
             [success |-> TRUE, error |-> "", mode |-> ""]
      [] cmd_type \in {"RESTART_PROCESS", "STOP_PROCESS"} ->
             run_process(payload, config, os_ok)
      [] OTHER -> [success |-> FALSE, error |-> "no_handler", mode |-> ""]

\* RECOHttpClient._request: what a request leaves in
\* _consecutive_failures.  "ok": a reply arrived within the retries, the
\* count is reset; "fail": every attempt failed, the count grows by one and
\* ConnectionError is raised; "auth": a 401 is raised at once and the
\* count stays
client_request(failures, outcome) ==
    CASE outcome = "ok"   -> 0
      [] outcome = "fail" -> failures + 1
      [] OTHER            -> failures

\* RECOAgent.__init__, with what the last turn of the loop did: the
\* outcomes of its requests, the commands it pulled, the ids handed to
\* execute_command and the reports posted to the server
RECOAgent(config) ==
    [ config |-> config, current_mode |-> "NORMAL", failures |-> 0,
      outcomes |-> <<>>, commands |-> <<>>, executed |-> <<>>,
      reports |-> <<>> ]

\* _report_result: the post to /agent/report; a failure of the post is
\* logged and changes nothing but the client's count
report_result(a, cmd_id, status, error, outcome) ==
    [a EXCEPT !.reports = Append(@, [command_id |-> cmd_id,
                                      status |-> status, error |-> error]),
              !.failures = client_request(@, outcome)]

execute_single(a, cmd, os_ok, outcome) ==
    LET payload == [mode |-> cmd.mode, process |-> cmd.process]
        v == validate_command(cmd.type, payload, a.config)
        result == execute_command(cmd.type, payload, a.config, os_ok)
        ran == [a EXCEPT !.executed = Append(@, cmd.id)]
        reported == report_result(ran, cmd.id,
                        IF result.success THEN "completed" ELSE "failed",
                        result.error, outcome)
    IN  IF ~v.valid
        THEN report_result(a, cmd.id, "failed", v.reason, outcome)
        ELSE IF is_strong_command(cmd.type) /\ ~a.config.apply_enabled
        THEN report_result(a, cmd.id, "failed", "blocked", outcome)
        ELSE IF cmd.type = "SET_MODE" /\ result.success
        THEN [reported EXCEPT !.current_mode = result.mode]
        ELSE reported

\* The loop of _pull_and_execute over commands[i..]; os holds the
\* positions whose shell command returns 0, posts[i] is the outcome of the
\* report of commands[i]
RECURSIVE execute_from(_, _, _, _, _)
execute_from(a, commands, i, os, posts) ==
    IF i > Len(commands) THEN a
    ELSE execute_from(execute_single(a, commands[i], i \in os, posts[i]),
                      commands, i + 1, os, posts)

\* _pull_and_execute: a failed GET /agent/pull is logged and nothing runs
pull_and_execute(a, pull, commands, os, posts) ==
    LET fresh == [a EXCEPT !.commands = <<>>, !.executed = <<>>,
                           !.reports = <<>>,
                           !.failures = client_request(@, pull)]
    IN  IF pull = "ok"
        THEN execute_from([fresh EXCEPT !.commands = commands],
                          commands, 1, os, posts)
        ELSE fresh

\* A pull on a steady network: the GET and every report succeed, or the
\* GET fails
PullAndExecute(got, commands, os) ==
    LET pull == IF got THEN "ok" ELSE "fail"
        posts == [i \in 1..Len(commands) |-> "ok"]
    IN  /\ agent' = [pull_and_execute(agent, pull, commands, os, posts)
                        EXCEPT !.outcomes = <<pull>> \o
                                   (IF got THEN posts ELSE <<>>)]
        /\ UNCHANGED <<state, uuid_count, n_patrol, last, files, requests>>

SAFE_MODE_FAILURE_THRESHOLD == 5

\* _send_heartbeat: one post, its failure logged
send_heartbeat(a, outcome) ==
    [a EXCEPT !.failures = client_request(@, outcome)]

\* Step 5 of the loop of run
check_safe_mode(a) ==
    IF a.failures >= SAFE_MODE_FAILURE_THRESHOLD /\ a.current_mode # "SAFE"
    THEN [a EXCEPT !.current_mode = "SAFE"]
    ELSE a

\* One turn of the loop of run: heartbeat, pull and the check for SAFE
\* mode.  hb and pull are the outcomes of the two requests, "none" when
\* the interval of one has not elapsed; no log file is watched (the
\* default), so the log buffer stays empty and nothing is sent from it
run_turn(a, hb, pull, commands, os, posts) ==
    LET pulled == pull_and_execute(send_heartbeat(a, hb), pull, commands,
                                   os, posts)
    IN  [check_safe_mode(pulled) EXCEPT
            !.outcomes = <<hb, pull>> \o
                            (IF pull = "ok" THEN posts ELSE <<>>)]

RunTurn(hb, pull, commands, os, posts) ==
    /\ agent' = run_turn(agent, hb, pull, commands, os, posts)
    /\ UNCHANGED <<state, uuid_count, n_patrol, last, files, requests>>

----------------------------------------------------------------------------
(* Spec: the engine under mixed requests *)

Init ==
    /\ state = default_state
    /\ uuid_count = 0
    /\ n_patrol = 0
    /\ last = NoRet
    /\ files = NoFiles
    /\ requests = [t \in Workers |-> Idle]
    /\ agent = RECOAgent(DEFAULT_CONFIG)

DoEvaluate ==
    \E p \in EvalPayloads :
        /\ state.total_sessions < MaxSessions
        /\ Evaluate(p)

DoFeedback ==
    \E p \in FeedbackPayloads(uuid_count) :
        /\ RecordFeedback(p)
        /\ Cardinality(state'.used_session_ids) <= MaxFeedbacks

DoPatrol ==
    /\ n_patrol < MaxPatrols
    /\ Patrol

Next == DoEvaluate \/ DoFeedback \/ DoPatrol

Spec == Init /\ [][Next]_vars

----------------------------------------------------------------------------
(* Properties of the engine under Spec *)

LogIds(logs) == {logs[i].session_id : i \in 1..Len(logs)}

\* C1: a well-formed feedback on a session id that is not in the ledger is
\* recorded, enters the ledger and changes the domain weight; a well-formed
\* feedback on a session id that is in the ledger (whatever its domain and
\* value) returns duplicate_ignored and leaves the whole state as it was;
\* and no call ever removes an id from the ledger.
C1_FeedbackOncePerSession ==
    [][ /\ state.used_session_ids \subseteq state'.used_session_ids
        /\ \A p \in FeedbackPayloads(uuid_count) :
             (/\ last'.op = "feedback"
              /\ p.session_id.id # 0
              /\ p.domain \notin {"", " "}
              /\ p.feedback \in {"good", " good ", "bad", "recalculate"}
              /\ RecordFeedback(p))
             => IF p.session_id.id \in state.used_session_ids
                THEN last'.status = "duplicate_ignored" /\ state' = state
                ELSE /\ last'.status = "recorded"
                     /\ p.session_id.id \in state'.used_session_ids
                     /\ state'.domains # state.domains ]_vars

C1_Witness ==
    /\ last.op = "feedback"
    /\ last.status = "duplicate_ignored"
    /\ state.used_session_ids # {}
    /\ state.domains # default_state.domains

\* C5: a successful evaluate adds one to total_sessions and puts one new
\* entry at the end of the log, whose session id is the one returned and
\* occurs nowhere in the log before, with reward and feedback null;
\* total_sessions never decreases and equals the number of successful
\* evaluations.
C5_OneSessionPerEvaluate ==
    [][ /\ state'.total_sessions >= state.total_sessions
        /\ state'.total_sessions = uuid_count'
        /\ \A p \in EvalPayloads :
             (last'.op = "evaluate" /\ last'.error = "" /\ Evaluate(p))
             => LET logs == state'.session_logs
                    e == logs[Len(logs)]
                IN  /\ state'.total_sessions = state.total_sessions + 1
                    /\ uuid_count' = uuid_count + 1
                    /\ Len(state.session_logs) < LOG_CAP
                         => /\ Len(logs) = Len(state.session_logs) + 1
                            /\ SubSeq(logs, 1, Len(logs) - 1) = state.session_logs
                    /\ e.session_id = last'.session_id
                    /\ e.session_id \notin LogIds(state.session_logs)
                    /\ e.reward = <<>> /\ e.feedback = <<>> ]_vars

C5_Witness ==
    /\ last.op = "evaluate" /\ last.error = ""
    /\ state.total_sessions = 2
    /\ Len(state.session_logs) = 2

\* C9: an evaluate whose inference, evidence or context is not a map, or
\* whose context.domain is missing, empty or white space only, raises the
\* invalid-payload error, leaves the state as it was and runs no patrol.
C9_InvalidEvaluateRejected ==
    [][ \A p \in EvalPayloads :
          (/\ last'.op = "evaluate"
           /\ (\/ ~p.inference_ok \/ ~p.evidence_ok \/ ~p.context_ok
               \/ p.context.domain \in {"", " "})
           /\ Evaluate(p))
          => /\ last'.error \in {"Invalid payload types",
                                 "context.domain is required"}
             /\ state' = state
             /\ uuid_count' = uuid_count
             /\ ~last'.auto_patrol ]_vars

C9_Witness ==
    /\ last.op = "evaluate"
    /\ last.error = "context.domain is required"
    /\ state.total_sessions > 0

\* C10: a feedback with an empty session id, an empty domain or a value
\* that is none of good, bad, recalculate returns an error and leaves the
\* state as it was, so that a well-formed feedback on the same session id
\* is still recorded afterwards if it would have been before.
C10_InvalidFeedbackRejected ==
    [][ \A p \in FeedbackPayloads(uuid_count) :
          (/\ last'.op = "feedback"
           /\ (\/ p.session_id.id = 0
               \/ p.domain \in {"", " "}
               \/ p.feedback \in {"great", ""})
           /\ RecordFeedback(p))
          => /\ last'.error \in {"session_id_required", "domain_required",
                                 "invalid_feedback"}
             /\ state' = state
             /\ (p.session_id.id # 0
                   /\ p.session_id.id \notin state.used_session_ids)
                => record_feedback(state',
                       Feedback(p.session_id.id, FALSE, "x", "good")).ret.status
                   = "recorded" ]_vars

C10_Witness ==
    /\ last.op = "feedback"
    /\ last.error = "invalid_feedback"
    /\ state.used_session_ids # {}
    /\ 1 \notin state.used_session_ids

\* C11 as stated: patrol on a state with no log entries leaves k and eta as
\* they were, reports adjusted = false and returns the reason "no_change".
C11_Original ==
    [][ (last'.op = "patrol" /\ state.session_logs = <<>>) =>
          /\ state'.k = state.k /\ state'.eta = state.eta
          /\ ~last'.adjusted /\ last'.reason = "no_change" ]_vars

\* C11 (amended): patrol on a state with no log entries leaves the whole
\* state as it was, reports adjusted = false and returns the reason
\* "no_logs".
C11_PatrolEmptyLogs ==
    [][ (last'.op = "patrol" /\ state.session_logs = <<>>) =>
          /\ state' = state
          /\ ~last'.adjusted /\ last'.reason = "no_logs" ]_vars

C11_Witness ==
    /\ last.op = "patrol" /\ last.reason = "no_logs"
    /\ state.session_logs = <<>> /\ n_patrol > 0

----------------------------------------------------------------------------
(* SpecTune: few sessions, any number of manual patrols *)

TuneEvaluate ==
    \E p \in {PayloadFar("y"), PayloadExact("x")} :
        /\ state.total_sessions < TuneSessions
        /\ Evaluate(p)

TuneFeedback ==
    \E id \in 1..uuid_count, fb \in {"good", "bad"} :
        /\ WouldRecord(Feedback(id, FALSE, "x", fb))
        /\ RecordFeedback(Feedback(id, FALSE, "x", fb))

TunePatrol == Patrol

NextTune == TuneEvaluate \/ TuneFeedback \/ TunePatrol

SpecTune == Init /\ [][NextTune]_vars

\* C2: after every call k lies in [k_min, k_max] and eta in
\* [eta_min, eta_max], the bounds being those of the default state.
C2_GainsWithinBounds ==
    /\ state.k_min = 50 /\ state.k_max = 500
    /\ state.eta_min = 1000 /\ state.eta_max = 100000
    /\ state.k_min <= state.k /\ state.k <= state.k_max
    /\ state.eta_min <= state.eta /\ state.eta <= state.eta_max

\* both gains sit on their upper bound and the rule that raises them fires
\* again: the clamp has cut k and eta
C2_Witness ==
    /\ last.op = "patrol" /\ last.adjusted
    /\ state.k = state.k_max /\ state.eta = state.eta_max
    /\ rule_strictify(patrol_window(state.session_logs))

----------------------------------------------------------------------------
(* SpecAuto: enough sessions for the automatic patrol.  The requests are   *)
(* evaluations that agree with their evidence, followed by evaluations far *)
(* from it.                                                                *)

AutoPayloads(logs) ==
    IF logs # <<>> /\ logs[Len(logs)].domain = "y"
    THEN {PayloadFar("y")}
    ELSE {PayloadExact("x"), PayloadFar("y")}

AutoEvaluate ==
    \E p \in AutoPayloads(state.session_logs) \cup {PayloadBasic(" ")} :
        /\ state.total_sessions < AutoSessions
        /\ Evaluate(p)

AutoFeedback ==
    \E id \in 1..uuid_count, fb \in {"good", "bad"} :
        /\ WouldRecord(Feedback(id, FALSE, "x", fb))
        /\ Cardinality(state.used_session_ids) < AutoFeedbacks
        /\ RecordFeedback(Feedback(id, FALSE, "x", fb))

NextAuto == AutoEvaluate \/ AutoFeedback

SpecAuto == Init /\ [][NextAuto]_vars

\* C6: a successful evaluate runs patrol exactly when the incremented
\* total_sessions is a multiple of 10; the patrol then works on the log
\* that already holds the new entry; on any other evaluation k and eta
\* stay as they were.
C6_PatrolEveryTenth ==
    [][ \A p \in {PayloadExact("x"), PayloadFar("y")} :
          (last'.op = "evaluate" /\ last'.error = "" /\ Evaluate(p))
          => LET window == patrol_window(state'.session_logs)
             IN  /\ last'.auto_patrol
                      = ((state.total_sessions + 1) % 10 = 0)
                 /\ IF (state.total_sessions + 1) % 10 = 0
                    THEN /\ state'.k = clamp(patrol_k(state.k, window),
                                             state.k_min, state.k_max)
                         /\ state'.eta = clamp(patrol_eta(state.eta, window),
                                               state.eta_min, state.eta_max)
                         /\ last'.adjusted = (patrol_reason(window) # <<>>)
                    ELSE /\ state'.k = state.k /\ state'.eta = state.eta
                         /\ ~last'.adjusted ]_vars

\* the tenth evaluation ran a patrol that adjusted, and its own entry
\* decided which rule fired
C6_Witness ==
    /\ last.op = "evaluate" /\ last.auto_patrol /\ last.adjusted
    /\ state.total_sessions = 10
    /\ patrol_reason(SubSeq(state.session_logs, 1, 9))
         # patrol_reason(patrol_window(state.session_logs))

----------------------------------------------------------------------------
(* SpecCap: one evaluation after another, past the cap of the log *)

CapEvaluate ==
    /\ state.total_sessions < LOG_CAP + CapExtra
    /\ Evaluate(PayloadExact("x"))

SpecCap == Init /\ [][CapEvaluate]_vars

\* C3: after N successful evaluations the log holds min(N, 2000) entries,
\* and they are the most recent ones in the order of their evaluation
\* (session ids are numbered in that order).
C3_LogCap ==
    LET logs == state.session_logs
    IN  /\ Len(logs) = Min(state.total_sessions, 2000)
        /\ \A i \in 1..Len(logs) :
             logs[i].session_id = state.total_sessions - Len(logs) + i

C3_Witness ==
    /\ state.total_sessions = 2002
    /\ Len(state.session_logs) = 2000
    /\ state.session_logs[1].session_id = 3
    /\ state.session_logs[2000].session_id = 2002

----------------------------------------------------------------------------
(* SpecGen: the orchestrator.  Each call reads its configuration, so the   *)
(* configured values are inputs of the call, and so is what the adapter    *)
(* does at each of its calls.                                              *)

\* tests/test_orchestrator.py: the plain question and the critical input
InputLow == <<"Q">>
InputCritical ==
    <<"imasugu", "zenkaku_!", "kanpekini", "zenkaku_!", "zettai", "zenkaku_!">>
InputHigh == <<"imasugu", "!", "!", "zettai", "100%">>
InputTexts == {InputLow, InputCritical, InputHigh}

\* psi_modifier 0.643804 (tests/test_orchestrator.py) and 0.467674
OutputSoft == <<"kanarazu", "seikoushimasu", "zettaini">>
OutputBad ==
    <<"kanarazu", "kamoshiremasen", "zettaini", "kanouseigaarimasu", "baka">>
AdapterOutcomes == {OutputSoft, OutputBad, RaisesRuntimeError}

\* context=None
NoContext == [x \in {} |-> 0]

Configs ==
    { [DEFAULTS EXCEPT !.max_regen_attempts = m, !.psi_regen_threshold = t] :
        m \in 0..MaxRegen, t \in {500000, 900000} }

GenProcess ==
    \E text \in InputTexts, domain \in {"x", ""}, cfg \in Configs :
      \E outs \in [1..loop_bound(cfg) -> AdapterOutcomes] :
         /\ Process(text, domain, NoContext, cfg, outs)
         /\ state'.total_sessions <= GenSessions

SpecGen == Init /\ [][GenProcess]_vars

Critical(r) == r.op = "process" /\ r.risk_level = "critical"
NonCritical(r) == r.op = "process" /\ r.risk_level # "critical"

\* C4: a call of process() on an input that the input scorer rates critical
\* returns the cool-down result (no session id, attempts 0), makes no call
\* of LLMAdapter.generate and leaves the engine state as it was.
C4_CriticalShortCircuit ==
    [][ Critical(last') =>
          /\ last'.session_id = 0 /\ last'.attempts = 0
          /\ last'.calls = <<>> /\ last'.temperature_used = 0
          /\ ~last'.regenerated /\ last'.error = ""
          /\ state' = state /\ uuid_count' = uuid_count ]_vars

\* a critical input arrived after a session had been recorded
C4_Witness ==
    Critical(last) /\ last.calls = <<>> /\ state.total_sessions > 0

\* The attempt whose psi_modifier reached the threshold is the last call
StopsOnceAccepted(r) ==
    \A i \in 1..Len(r.psis) : r.psis[i] >= r.threshold => i = Len(r.calls)

\* C7 as stated: on a non-critical input process() makes at most
\* MAX_REGEN_ATTEMPTS calls of LLMAdapter.generate, whatever value is
\* configured, and none after an attempt with psi_modifier >= the threshold.
C7_Original ==
    NonCritical(last) =>
        Len(last.calls) <= last.max_regen /\ StopsOnceAccepted(last)

\* C7 (amended): on a non-critical input process() makes at most
\* max(1, MAX_REGEN_ATTEMPTS) calls of LLMAdapter.generate, and none after
\* an attempt with psi_modifier >= PSI_REGEN_THRESHOLD.
C7_BoundedRegeneration ==
    NonCritical(last) =>
        /\ Len(last.calls) <= Max(1, last.max_regen)
        /\ StopsOnceAccepted(last)

\* every configured attempt was used, the last one also below the threshold
C7_Witness ==
    /\ NonCritical(last) /\ last.max_regen = MaxRegen
    /\ Len(last.calls) = MaxRegen /\ Len(last.psis) = MaxRegen
    /\ \A i \in 1..Len(last.psis) : last.psis[i] < last.threshold

Failed(r) == r.op = "process" /\ \E i \in 1..Len(r.calls) : r.calls[i] = "raised"

\* C8: when a call of LLMAdapter.generate fails, process() raises the
\* generation error instead of returning a result, the failed call is its
\* last one and the calls made stay within the loop's bound, and the engine
\* state is left as it was (no session appended).
C8_FailureSurfaced ==
    [][ Failed(last') =>
          /\ last'.error # "" /\ last'.session_id = 0
          /\ Len(last'.calls) <= Max(1, last'.max_regen)
          /\ \A i \in 1..Len(last'.calls) :
                last'.calls[i] = "raised" => i = Len(last'.calls)
          /\ state' = state /\ uuid_count' = uuid_count ]_vars

\* the adapter failed at a regeneration, after a first output was rejected
C8_Witness ==
    /\ Failed(last) /\ Len(last.calls) = 2 /\ last.error # ""
    /\ state.total_sessions > 0

\* process() returned a result after a generation that succeeded
Returned(r) == NonCritical(r) /\ r.error = ""

\* The call appended one log entry, and id is its session id
AppendedAs(id) ==
    /\ Len(state'.session_logs) = Len(state.session_logs) + 1
    /\ state'.session_logs[Len(state'.session_logs)].session_id = id
    /\ id \notin LogIds(state.session_logs)
    /\ state'.total_sessions = state.total_sessions + 1

----------------------------------------------------------------------------
(* SpecIO: the operations on a disk where any save_state call may fail.    *)
(* Ten sessions, so that the tenth evaluation runs the automatic patrol    *)
(* and its second save.  Between the first session and the eighth the      *)
(* requests are plain evaluations on a disk that works.                    *)

DiskOutcomes == [1..2 -> BOOLEAN]

Quiet ==
    0 < state.total_sessions /\ state.total_sessions < PATROL_EVERY - 2

IOEvaluate ==
    \E p \in {PayloadFar("y"), PayloadBasic("")},
       disk \in IF Quiet THEN {AllSaved} ELSE DiskOutcomes :
        /\ state.total_sessions < IOSessions
        /\ EvaluateIO(p, disk)

IOFeedback ==
    \E disk \in DiskOutcomes :
        /\ ~Quiet /\ uuid_count > 0
        /\ RecordFeedbackIO(Feedback(uuid_count, FALSE, "y", "bad"), disk)
        /\ Cardinality(state'.used_session_ids) <= IOFeedbacks

IOPatrol ==
    \E disk \in DiskOutcomes :
        /\ ~Quiet /\ n_patrol < MaxPatrols
        /\ PatrolIO(disk)

IOProcess ==
    \E disk \in DiskOutcomes :
        /\ ~Quiet /\ state.total_sessions < IOSessions
        /\ ProcessIO(InputLow, "y", NoContext, DEFAULTS,
                     <<OutputSoft, OutputSoft>>, disk)

NextIO == IOEvaluate \/ IOFeedback \/ IOPatrol \/ IOProcess

SpecIO == Init /\ [][NextIO]_vars

\* The state file holds what it held before the call, or that with the one
\* session more that an earlier save of the same call wrote.
FileIntact ==
    \/ state' = state
    \/ /\ last'.op \in {"evaluate", "process"}
       /\ Len(state'.session_logs) = Len(state.session_logs) + 1
       /\ state' = [state EXCEPT
                      !.total_sessions = @ + 1,
                      !.session_logs =
                          Append(@, state'.session_logs[Len(state'.session_logs)])]

----------------------------------------------------------------------------
(* SpecRace: requests served by two worker threads that share the state    *)
(* file and its temporary file                                             *)

RaceRequests ==
    { <<"evaluate", PayloadBasic("x")>>, <<"evaluate", PayloadFar("xyz")>>,
      <<"evaluate", PayloadBasic("")>>,
      <<"feedback", Feedback(1, FALSE, "x", "good")>>,
      <<"patrol", <<>>>> }

RaceArrive ==
    \E t \in Workers, r \in RaceRequests :
        /\ requests[t].served < MaxServed
        /\ Arrive(t, r[1], r[2])

RaceLoad == \E t \in Workers : Load(t)

RaceOpen == \E t \in Workers : OpenTmp(t)

RaceWrite == \E t \in Workers : WriteTmp(t)

RaceReplace == \E t \in Workers : ReplaceTmp(t)

NextRace == RaceArrive \/ RaceLoad \/ RaceOpen \/ RaceWrite \/ RaceReplace

SpecRace == Init /\ [][NextRace]_vars

\* The call of worker t went through save_state and returned
Saved(t) ==
    /\ requests[t].pc = "done"
    /\ requests[t].saved_at > 0
    /\ requests[t].ret.error = ""

Ended(t) == requests[t].pc = "done" /\ requests[t].saved_at > 0

\* t loaded the state while u's call had loaded it and not yet saved
Raced(t, u) == <<u, requests[u].served>> \in requests[t].raced

LastSaver(t, u) ==
    IF requests[u].saved_at > requests[t].saved_at THEN u ELSE t

\* C14: when two state-mutating calls both load the state before either
\* saves, then once both have ended the state file holds the state one of
\* them computed and nothing of the other's update; when both have
\* returned it is the state of the later save.
C14_LastWriterWins ==
    \A t, u \in Workers :
        ( /\ t # u
          /\ Raced(t, u)
          /\ Ended(t) /\ Ended(u)
          /\ files.saves = Max(requests[t].saved_at, requests[u].saved_at) )
        => /\ files.sp = "json"
           /\ state \in {requests[t].next, requests[u].next}
           /\ Saved(t) /\ Saved(u) => state = requests[LastSaver(t, u)].next

----------------------------------------------------------------------------
(* SpecStore: states made by the engine's operations, saved with an older  *)
(* or a missing updated_at, and loaded again                               *)

Times == 1 .. 2

\* The state a caller holds: the loaded one, as it is or with the
\* updated_at of an earlier save
Held == {state} \cup {stamped(state, now) : now \in Times}

StoreEvaluate ==
    \E p \in {PayloadBasic("x"), PayloadFar("y")} :
        /\ state.total_sessions < StoreSessions
        /\ Evaluate(p)

StoreFeedback ==
    \E fb \in FeedbackValues :
        /\ RecordFeedback(Feedback(uuid_count, FALSE, "x", fb))
        /\ Cardinality(state'.used_session_ids) <= StoreSessions

StorePatrol == n_patrol < MaxPatrols /\ Patrol

StoreSaveLoad == \E st \in Held, now \in Times : SaveLoad(st, now)

NextStore == StoreEvaluate \/ StoreFeedback \/ StorePatrol \/ StoreSaveLoad

SpecStore == Init /\ [][NextStore]_vars

----------------------------------------------------------------------------
(* SpecKey: requests under the settings of the API key environment          *)

Environments ==
    [ API_KEY : {"", " ", "k1"},
      API_KEY_MODE : {"enforce", "ENFORCE", "off"},
      API_KEY_HEADER : {"X-API-Key", "X-Other"},
      API_KEY_BYPASS_PATHS : {{}, {<<"api", "status">>}} ]

Paths ==
    { <<"api", "status">>, <<"api", "evaluate">>, <<"api", "r3", "chat">>,
      <<"health">>, <<"agent", "pull">> }

HeaderSets ==
    { [h \in {} |-> ""], [h \in {"X-API-Key"} |-> "k1"],
      [h \in {"X-API-Key"} |-> "bad"], [h \in {"X-Other"} |-> "k1"] }

KeyRequest ==
    \E env \in Environments :
        \E req \in [path : Paths, r3 : BOOLEAN, headers : HeaderSets] :
            Request(env, req)

SpecKey == Init /\ [][KeyRequest]_vars

\* The request is one the key check is about: under /api/, outside the
\* bypass list, without an r3 session
Guarded(env, req) ==
    /\ under(req.path, <<"api">>)
    /\ ~should_bypass_auth(get_api_key_config(env), req.path)
    /\ ~req.r3

CarriesKey(env, req) ==
    header_value(req.headers, Strip(env.API_KEY_HEADER)) = Strip(env.API_KEY)

\* C16: protection is in force exactly when the mode is enforce and a
\* non-empty key is configured; then a guarded request is served iff it
\* carries the configured key in the configured header and gets 401
\* otherwise; when protection is not in force a guarded request is served
\* without a key.
C16_KeyProtection ==
    (last.op = "request" /\ Guarded(last.env, last.req)) =>
        IF last.enabled
        THEN last.status = (IF CarriesKey(last.env, last.req)
                            THEN 200 ELSE 401)
        ELSE last.status = 200

----------------------------------------------------------------------------
(* SpecInput: the input scorer and rebuild_prompt on texts with up to      *)
(* MaxEmotionWords emotion words, up to four exclamation marks and up to   *)
(* one word of each other category                                         *)

Rep(token, n) == [i \in 1 .. n |-> token]

InputText(amb, ass, emo, ex, unr) ==
    <<"Q">> \o Rep("nanka", amb) \o Rep("zettai", ass) \o Rep("imasugu", emo)
            \o Rep("!", ex) \o Rep("kanpekini", unr)

ScoredTexts ==
    { InputText(amb, ass, emo, ex, unr) :
        amb \in 0 .. 1, ass \in 0 .. 1, emo \in 0 .. MaxEmotionWords,
        ex \in 0 .. 4, unr \in 0 .. 1 }

\* An analysis as analyze returns it, or the bare ones of the tests
Analyses(text) ==
    {input_analyze(text, DEFAULTS), [x \in {} |-> ""]}
        \cup {[risk_level |-> l] : l \in {"low", "moderate", "high", "critical"}}

ScoreInput == \E text \in ScoredTexts : AnalyzeInput(text, DEFAULTS)

Rebuild ==
    \E text \in {t \in ScoredTexts : Len(t) <= 4} :
        \E analysis \in Analyses(text) : RebuildPrompt(text, analysis)

NextInput == ScoreInput \/ Rebuild

SpecInput == Init /\ [][NextInput]_vars

\* The lexicon hits of a text in each category
lexicon_hits(text) ==
    [ ambiguity |-> count_hits(text, AMBIGUITY_JA \cup AMBIGUITY_EN),
      assertion_demand |->
          count_hits(text, ASSERTION_JA) + count_hits(text, ASSERTION_EN),
      emotional_pressure |-> count_hits(text, EMOTION_JA \cup EMOTION_EN),
      unrealistic |-> count_hits(text, UNREALISTIC_JA \cup UNREALISTIC_EN) ]

exclamation_marks(text) == count_hits(text, EXCLAMATIONS)

\* The count analyze scores: for emotional_pressure the hits plus up to
\* three exclamation marks
category_counts(text) ==
    [lexicon_hits(text) EXCEPT
        !.emotional_pressure = @ + Min(3, exclamation_marks(text))]

Categories == DOMAIN lexicon_hits(<<>>)

\* The band of a returned pre_d (units of 1e-6): level, action, modifier
\* (in tenths)
Band(pre_d) ==
    IF pre_d >= 700000 THEN <<"critical", "cool_down", 3>>
    ELSE IF pre_d >= 500000 THEN <<"high", "conditional", 5>>
    ELSE IF pre_d >= 300000 THEN <<"moderate", "clarify", 7>>
    ELSE <<"low", "proceed", 10>>

InRange(score) == 0 <= score /\ score <= 1000000

\* The claim as stated: zero when the category has no lexicon hit, never
\* lower for more lexicon hits, within [0, 1]
C18_Original ==
    [][ last'.op = "input_analyze" =>
          \A c \in Categories :
              /\ InRange(last'.result.scores[c])
              /\ lexicon_hits(last'.text)[c] = 0
                     => last'.result.scores[c] = 0
              /\ ( /\ last.op = "input_analyze"
                   /\ lexicon_hits(last'.text)[c] >= lexicon_hits(last.text)[c] )
                 => last'.result.scores[c] >= last.result.scores[c] ]_vars

\* C18: each category score is 0.0 when the count of the category (its
\* lexicon hits and, for emotional_pressure, up to three exclamation marks)
\* is zero, is never lower for a higher count, and lies in [0, 1].
C18_Saturation ==
    [][ last'.op = "input_analyze" =>
          \A c \in Categories :
              /\ InRange(last'.result.scores[c])
              /\ category_counts(last'.text)[c] = 0
                     => last'.result.scores[c] = 0
              /\ ( /\ last.op = "input_analyze"
                   /\ category_counts(last'.text)[c]
                          >= category_counts(last.text)[c] )
                 => last'.result.scores[c] >= last.result.scores[c] ]_vars

\* A text with exclamation marks only (a count without a lexicon hit) and a
\* category without any count has been scored
C18_Witness ==
    /\ last.op = "input_analyze"
    /\ lexicon_hits(last.text).emotional_pressure = 0
    /\ category_counts(last.text).emotional_pressure = 3
    /\ last.result.scores.emotional_pressure > 0
    /\ category_counts(last.text).ambiguity = 0
    /\ last.result.scores.ambiguity = 0

\* C20: rebuild_prompt gives the empty prompt with tag critical for a
\* critical analysis, the input itself with tag none for a low one (or one
\* without risk_level), and for moderate and high the input behind the
\* level's fixed guidance, so the input is a suffix of every prompt that is
\* not critical.
C20_RebuildPrompt ==
    last.op = "rebuild_prompt" =>
        LET level == get(last.analysis, "risk_level", "low")
            extra == Len(last.prompt) - Len(last.text)
        IN  CASE level = "critical" ->
                   last.prompt = <<>> /\ last.tag = "critical"
              [] level = "low" ->
                   last.prompt = last.text /\ last.tag = "none"
              [] OTHER ->
                   /\ last.tag = level
                   /\ extra = 1
                   /\ last.prompt[1] = (IF level = "moderate"
                                        THEN "[shishin]"
                                        ELSE "[juuyou-shishin]")
                   /\ SubSeq(last.prompt, extra + 1, Len(last.prompt))
                          = last.text

\* A text that analyze rated moderate was rebuilt from that analysis
C20_Witness ==
    /\ last.op = "rebuild_prompt"
    /\ last.analysis = input_analyze(last.text, DEFAULTS)
    /\ last.analysis.risk_level = "moderate"
    /\ Len(last.prompt) = Len(last.text) + 1

----------------------------------------------------------------------------
(* SpecOutput: the output scorer on every text of up to MaxOutLen tokens   *)

OutTokens == {"kanarazu", "definitely", "source", "baka", "Q"}

RECURSIVE TextsUpTo(_)
TextsUpTo(n) ==
    IF n = 0 THEN {<<>>}
    ELSE TextsUpTo(n - 1)
           \cup { Append(t, w) : t \in { u \in TextsUpTo(n - 1) : Len(u) = n - 1 },
                                 w \in OutTokens }

ScoreOutput == \E text \in TextsUpTo(MaxOutLen) : AnalyzeOutput(text, DEFAULTS)

SpecOutput == Init /\ [][ScoreOutput]_vars

\* C19: evidence_gap is tanh(5/3 * 1.2) = 0.964028 when the text holds an
\* assertion token and no evidence marker, and 0.0 otherwise, whatever the
\* number of assertion tokens and the rest of the text.
C19_EvidenceGap ==
    last.op = "output_analyze" =>
        last.result.scores.evidence_gap =
            IF /\ \E i \in 1 .. Len(last.text) : last.text[i] \in ASSERT_TOKENS
               /\ \A i \in 1 .. Len(last.text) :
                      last.text[i] \notin EVIDENCE_MARKERS
            THEN 964028 ELSE 0

\* Two assertion tokens and a provocative word, no evidence marker
C19_Witness ==
    /\ last.op = "output_analyze"
    /\ count_hits(last.text, ASSERT_TOKENS) = 2
    /\ count_hits(last.text, PROVOCATIVE) = 1
    /\ last.result.scores.evidence_gap = 964028

----------------------------------------------------------------------------
(* SpecWindow: more sessions than the patrol window holds.  Evaluations    *)
(* far from their evidence come first, evaluations that agree with it      *)
(* follow, so that the oldest entries differ from the last ten.            *)

WindowPayloads(logs) ==
    IF logs # <<>> /\ logs[Len(logs)].domain = "x"
    THEN {PayloadExact("x")}
    ELSE {PayloadFar("y"), PayloadExact("x")}

WindowEvaluate ==
    \E p \in WindowPayloads(state.session_logs) :
        /\ state.total_sessions < WindowSessions
        /\ Evaluate(p)

WindowFeedback ==
    \E id \in {uuid_count} \ {0}, fb \in {"good", "bad"} :
        /\ WouldRecord(Feedback(id, FALSE, "x", fb))
        /\ Cardinality(state.used_session_ids) < WindowFeedbacks
        /\ RecordFeedback(Feedback(id, FALSE, "x", fb))

WindowPatrol ==
    /\ n_patrol < MaxPatrols
    /\ Patrol

NextWindow == WindowEvaluate \/ WindowFeedback \/ WindowPatrol

SpecWindow == Init /\ [][NextWindow]_vars

\* The entries a patrol looks at: the last ten, or all when there are fewer
LastTen(logs) ==
    LET n == Len(logs)
        w == IF n < 10 THEN n ELSE 10
    IN  [i \in 1..w |-> logs[n - w + i]]

\* x restricted to [lo, hi]
Within(x, lo, hi) == IF x < lo THEN lo ELSE IF x > hi THEN hi ELSE x

----------------------------------------------------------------------------
(* SpecWeight: feedback before and after a patrol that changes eta *)

\* One session in each domain: far from its evidence in "y", agreeing
\* with it in "x"
WeightEvaluate ==
    \E d \in {"x", "y"} :
        /\ \A i \in 1..Len(state.session_logs) :
               state.session_logs[i].domain # d
        /\ Evaluate(IF d = "y" THEN PayloadFar(d) ELSE PayloadExact(d))

WeightFeedback ==
    \E p \in FeedbackPayloads(uuid_count) :
        /\ RecordFeedback(p)
        /\ Cardinality(state'.used_session_ids) <= WeightFeedbacks

WeightPatrol ==
    /\ n_patrol < MaxPatrols
    /\ Patrol

NextWeight == WeightEvaluate \/ WeightFeedback \/ WeightPatrol

SpecWeight == Init /\ [][NextWeight]_vars

\* The weight of a domain as the state holds it, 1.0 for a domain not seen
WeightOf(st, d) == IF d \in DOMAIN st.domains THEN st.domains[d] ELSE 1000000

\* C22: a recorded feedback sets the named domain's weight to
\* W_old + eta * reward, with reward +1 for good, -1 for bad and +0.3 for
\* recalculate, W_old = 1.0 for a domain not seen before and eta that of
\* the state at the time of the call; no other domain's weight, nor k, eta,
\* total_sessions or the number of log entries, changes.
C22_WeightStep ==
    [][ \A p \in FeedbackPayloads(uuid_count) :
          (RecordFeedback(p) /\ last'.status = "recorded")
          => LET d == Strip(p.domain)
                 fb == Strip(p.feedback)
                 tenths == CASE fb = "good" -> 10
                             [] fb = "bad" -> -10
                             [] fb = "recalculate" -> 3
             IN  /\ d \in DOMAIN state'.domains
                 /\ state'.domains[d]
                      = WeightOf(state, d) + (state.eta * tenths) \div 10
                 /\ DOMAIN state'.domains = DOMAIN state.domains \cup {d}
                 /\ \A e \in DOMAIN state.domains \ {d} :
                        state'.domains[e] = state.domains[e]
                 /\ state'.k = state.k /\ state'.eta = state.eta
                 /\ state'.total_sessions = state.total_sessions
                 /\ Len(state'.session_logs) = Len(state.session_logs) ]_vars

\* a bad feedback took the weight of "x" to 0.99 at eta 0.01, a patrol
\* raised eta to 0.0105, and a good feedback then added the new eta to the
\* weight the first one had left
C22_Witness ==
    /\ last.op = "feedback" /\ last.status = "recorded"
    /\ state.eta = 10500
    /\ "x" \in DOMAIN state.domains
    /\ state.domains["x"] = 1000500

\* The reward and feedback recorded on a log entry (<<>>, <<>> when null)
Rating(entry) == <<entry.reward, entry.feedback>>

\* C23: a recorded feedback fills reward and feedback on the most recent log
\* entry with that session_id and on no other entry; over any sequence of
\* operations the reward/feedback pair of a log entry goes from null to a
\* value at most once and never changes afterwards.
C23_BackfillOnce ==
    [][ LET old == state.session_logs
            new == state'.session_logs
        IN  /\ \A i \in 1..Len(old) :
                  /\ i <= Len(new)
                  /\ new[i].session_id = old[i].session_id
                  /\ Rating(old[i]) # <<<<>>, <<>>>>
                       => Rating(new[i]) = Rating(old[i])
            /\ \A i \in (Len(old) + 1)..Len(new) :
                  Rating(new[i]) = <<<<>>, <<>>>>
            /\ \A p \in FeedbackPayloads(uuid_count) :
                  (RecordFeedback(p) /\ last'.status = "recorded")
                  => LET id == StripId(p.session_id)
                         fb == Strip(p.feedback)
                         R == CASE fb = "good" -> 10
                                [] fb = "bad" -> -10
                                [] fb = "recalculate" -> 3
                         hits == {i \in 1..Len(old) : old[i].session_id = id}
                     IN  \A i \in 1..Len(old) :
                            IF i \in hits /\ \A h \in hits : h <= i
                            THEN Rating(new[i]) = <<<<R>>, <<fb>>>>
                            ELSE Rating(new[i]) = Rating(old[i]) ]_vars

\* the first of two sessions carries the feedback recorded for it, the
\* second is unrated, and a later feedback (on another id) was recorded
\* without touching either
C23_Witness ==
    /\ last.op = "feedback" /\ last.status = "recorded"
    /\ Len(state.session_logs) = 2
    /\ Rating(state.session_logs[1]) = <<<<-10>>, <<"bad">>>>
    /\ Rating(state.session_logs[2]) = <<<<>>, <<>>>>
    /\ Cardinality(state.used_session_ids) = 2
    /\ 1 \in state.used_session_ids /\ 2 \notin state.used_session_ids

----------------------------------------------------------------------------
(* Properties of what process() reports, under SpecGen *)

\* C24: for any configured MAX_REGEN_ATTEMPTS, the regenerated flag that
\* process() returns is true exactly when more than one call of
\* LLMAdapter.generate was made for the request (attempts > 1).
C24_RegeneratedFlag ==
    Returned(last) =>
        /\ last.attempts = Len(last.calls)
        /\ last.regenerated <=> (last.attempts > 1)

\* C25: the temperature_used that process() reports is the temperature that
\* was passed to the final call of LLMAdapter.generate of that request.
C25_TemperatureUsed ==
    Returned(last) =>
        /\ last.temps # <<>>
        /\ last.temperature_used = last.temps[Len(last.temps)]

----------------------------------------------------------------------------
(* SpecTemp: process() under configured base temperatures on both sides of *)
(* the clamp, on inputs of each temperature modifier                        *)

\* emotion with an assertion demand: risk level moderate
InputModerate == <<"imasugu", "zettai">>

TempConfigs ==
    { [DEFAULTS EXCEPT !.max_regen_attempts = m, !.psi_regen_threshold = t,
                       !.base_temperature = b] :
        m \in 0..MaxRegen, t \in {500000, 900000},
        b \in {50000, 700000, 2000000} }

TempProcess ==
    \E text \in {InputLow, InputModerate, InputHigh}, cfg \in TempConfigs :
      \E outs \in [1..loop_bound(cfg) -> {OutputSoft, OutputBad}] :
         /\ state.total_sessions < TempSessions
         /\ Process(text, "x", NoContext, cfg, outs)

SpecTemp == Init /\ [][TempProcess]_vars

\* C26: every temperature passed to LLMAdapter.generate lies in [0.1, 1.0]:
\* the first attempt uses clamp(base_temperature * input
\* temperature_modifier, 0.1, 1.0) and each retry uses
\* max(0.1, previous * 0.6), so the temperature never increases from one
\* attempt to the next.
C26_TemperatureRange ==
    NonCritical(last) =>
        LET t == last.temps
        IN  /\ Len(t) = Len(last.calls) /\ t # <<>>
            /\ \A i \in 1..Len(t) : 100000 <= t[i] /\ t[i] <= 1000000
            /\ t[1] = Within((last.base_temperature * last.t_mod) \div 10,
                             100000, 1000000)
            /\ \A i \in 2..Len(t) :
                  /\ t[i] = (IF (t[i - 1] * 6) \div 10 < 100000 THEN 100000
                             ELSE (t[i - 1] * 6) \div 10)
                  /\ t[i] <= t[i - 1]

\* a base temperature of 0.05 was raised to 0.1 for the first call, and the
\* retry stayed on the floor
C26_Witness ==
    /\ NonCritical(last) /\ last.base_temperature = 50000
    /\ last.temps = <<100000, 100000>>
    /\ last.calls = <<"returned", "returned">>

----------------------------------------------------------------------------
(* SpecReply: the first call of process() on a new state file, with        *)
(* adapter outputs of each output action                                    *)

\* psi_modifier 1.0, 0.706 (annotate) and 0.643804 (soften); "OK" is a token
\* that is not lower-case
OutputPass == <<"OK">>
OutputCautious == <<"kanarazu", "OK">>
OutputSoftOK == <<"kanarazu", "seikoushimasu", "zettaini", "OK">>
ReplyOutcomes == {OutputPass, OutputCautious, OutputSoftOK, OutputBad}

ReplyProcess ==
    \E text \in {InputLow, InputModerate}, domain \in {"x", "y"},
       cfg \in Configs :
      \E outs \in [1..loop_bound(cfg) -> ReplyOutcomes] :
         /\ state.total_sessions = 0
         /\ Process(text, domain, NoContext, cfg, outs)

SpecReply == Init /\ [][ReplyProcess]_vars

\* C27: the response process() returns is derived from the last generated
\* text by the final output action alone: pass returns the adapter's text
\* unchanged with annotated = false, soften returns soften(text) with
\* annotated = false, annotate and regenerate return the text with a fixed
\* disclaimer before it and annotated = true.
C27_ResponseByAction ==
    Returned(last) =>
        /\ last.action
             = output_analyze(last.generated, DEFAULTS).action
        /\ CASE last.action = "pass" ->
                  last.response = last.generated /\ ~last.annotated
             [] last.action = "soften" ->
                  last.response = soften(last.generated) /\ ~last.annotated
             [] last.action = "annotate" ->
                  /\ last.response = <<"(chuu)">> \o last.generated
                  /\ last.annotated
             [] last.action = "regenerate" ->
                  /\ last.response = <<"(keikoku)">> \o last.generated
                  /\ last.annotated

\* two outputs were rejected and the second one, whose action is soften,
\* came back rewritten and in lower case
C27_Witness ==
    /\ Returned(last) /\ last.action = "soften" /\ ~last.annotated
    /\ Len(last.calls) = 2 /\ last.regenerated
    /\ last.generated = OutputSoftOK
    /\ last.response = <<"ookunobaai", "seikoushimasu", "hobo", "ok">>

----------------------------------------------------------------------------
(* SpecEscalate: the input scorer on texts with up to EscalateHits words   *)
(* of each category, with the default weights and with weights large       *)
(* enough for a sum above 1.0                                              *)

EscalateTexts ==
    { <<"Q">> \o Rep("nanka", amb) \o Rep("zettai", ass)
              \o Rep("imasugu", emo) \o Rep("!", ex) \o Rep("kanpekini", unr) :
        amb \in 0 .. EscalateHits, ass \in 0 .. EscalateHits,
        emo \in 0 .. EscalateHits, ex \in 0 .. 1, unr \in 0 .. EscalateHits }

HeavyWeights ==
    [DEFAULTS EXCEPT !.input_w_ambiguity = 40, !.input_w_assertion = 50,
                     !.input_w_emotion = 150, !.input_w_unrealistic = 50]

ScoreEscalate ==
    \E text \in EscalateTexts, cfg \in {DEFAULTS, HeavyWeights} :
        AnalyzeInput(text, cfg)

SpecEscalate == Init /\ [][ScoreEscalate]_vars

\* The weighted sum of the four category scores, in units of 1e-8
WeightedSum(scores, cfg) ==
    scores.ambiguity * cfg.input_w_ambiguity
      + scores.assertion_demand * cfg.input_w_assertion
      + scores.emotional_pressure * cfg.input_w_emotion
      + scores.unrealistic * cfg.input_w_unrealistic

----------------------------------------------------------------------------
(* SpecBands: the output scorer on the short texts and on texts of up to   *)
(* MaxAsserts assertion tokens with an evidence marker, with the default   *)
(* weights and with doubled ones                                           *)

BandTexts ==
    TextsUpTo(MaxOutLen)
        \cup { Rep("kanarazu", n) \o <<"source">> : n \in 0 .. MaxAsserts }

DoubleWeights ==
    [DEFAULTS EXCEPT !.output_w_assertion = 60, !.output_w_evidence = 60,
                     !.output_w_contradiction = 50, !.output_w_provocative = 30]

ScoreBands ==
    \E text \in BandTexts, cfg \in {DEFAULTS, DoubleWeights} :
        AnalyzeOutput(text, cfg)

SpecBands == Init /\ [][ScoreBands]_vars

\* The band of a returned post_d (units of 1e-6): level and action
OutBand(post_d) ==
    IF post_d >= 700000 THEN <<"critical", "regenerate">>
    ELSE IF post_d >= 500000 THEN <<"degraded", "soften">>
    ELSE IF post_d >= 300000 THEN <<"cautious", "annotate">>
    ELSE <<"healthy", "pass">>

----------------------------------------------------------------------------
(* SpecAgent: the PC agent pulling commands under either setting of
   control.apply_enabled *)

MaxCommands == 2
MaxFailures == 6

AgentConfigs ==
    { [DEFAULT_CONFIG EXCEPT !.apply_enabled = e, !.processes = {"web"}] :
        e \in BOOLEAN }

\* The commands a server may queue, the one at position i of a pull
AgentCommands(i) ==
    { [id |-> i, type |-> "SET_MODE", mode |-> m, process |-> ""] :
        m \in {"SAFE", "DEBUG"} }
    \cup { [id |-> i, type |-> t, mode |-> "", process |-> ""] :
        t \in {"SET_RATE_LIMIT", "NOTIFY_OPS", "ROLLBACK", "STOP_PROCESS",
               "REBOOT"} }
    \cup { [id |-> i, type |-> "RESTART_PROCESS", mode |-> "",
            process |-> "web"] }

CommandLists ==
    UNION { { c \in [1..n -> UNION {AgentCommands(i) : i \in 1..n}] :
                \A i \in 1..n : c[i].id = i } : n \in 1..MaxCommands }

InitAgent ==
    /\ state = default_state
    /\ uuid_count = 0
    /\ n_patrol = 0
    /\ last = NoRet
    /\ files = NoFiles
    /\ requests = [t \in Workers |-> Idle]
    /\ \E config \in AgentConfigs : agent = RECOAgent(config)

AgentPull ==
    \E got \in BOOLEAN, commands \in CommandLists :
        \E os \in SUBSET { i \in 1..Len(commands) :
                              commands[i].type = "RESTART_PROCESS" } :
            /\ got \/ agent.failures < MaxFailures
            /\ PullAndExecute(got, commands, os)

SpecAgent == InitAgent /\ [][AgentPull]_vars

\* The two checks of the claim, stated on the command and the config
PassesChecks(cmd, config) ==
    /\ cmd.type \in { "SET_MODE", "SET_RATE_LIMIT", "NOTIFY_OPS",
                      "RESTART_PROCESS", "STOP_PROCESS", "ROLLBACK" }
    /\ cmd.type \in { "RESTART_PROCESS", "STOP_PROCESS", "ROLLBACK",
                      "SET_RATE_LIMIT" } => config.apply_enabled

WasExecuted(i) == \E j \in 1..Len(agent.executed) : agent.executed[j] = i

ReportsOf(i) ==
    SelectSeq(agent.reports, LAMBDA r : r.command_id = i)

\* C30: a pulled command reaches execute_command only if its type is in the
\* allowlist and, for RESTART_PROCESS, STOP_PROCESS, ROLLBACK and
\* SET_RATE_LIMIT, control.apply_enabled is true; a command failing these
\* checks gets one report, with status failed, and is not executed.
C30_AllowlistAndApplyGate ==
    \A i \in 1..Len(agent.commands) :
        LET cmd == agent.commands[i]
        IN  /\ WasExecuted(i) => PassesChecks(cmd, agent.config)
            /\ ~PassesChecks(cmd, agent.config) =>
                   /\ ~WasExecuted(i)
                   /\ Len(ReportsOf(i)) = 1
                   /\ ReportsOf(i)[1].status = "failed"

\* With apply_enabled false a pull held a strong command, reported failed,
\* followed by a command that was executed and reported completed
C30_Witness ==
    /\ ~agent.config.apply_enabled
    /\ Len(agent.commands) = 2
    /\ agent.commands[1].type \in STRONG_COMMANDS
    /\ ReportsOf(1) = <<[command_id |-> 1, status |-> "failed",
                         error |-> "requires_apply_enabled"]>>
    /\ agent.executed = <<2>>
    /\ ReportsOf(2)[1].status = "completed"

----------------------------------------------------------------------------
(* reco3_agent/analyzer.py: the human-state analysis of the desktop agent *)

\* _EMOTION and _OVERLOAD, a few of their words
HUMAN_EMOTION == {"imasugu", "isoide", "tsukaenai", "fuzakeruna", "hurry"}
HUMAN_OVERLOAD == {"zenbu", "tairyou", "everything"}

\* str.count of every word in the lower-cased text; the token
\* "zenbumatomete" holds two words of _OVERLOAD, itself and "zenbu"
human_count_hits(text, words) ==
    count_hits([i \in 1..Len(text) |-> Lower(text[i])], words)
    + (IF "zenbu" \in words
       THEN 2 * count_hits(text, {"zenbumatomete"}) ELSE 0)

\* score_emotional and score_overload, in thirds: min(1.0, c / 3.0)
score_emotional(text) ==
    Min(3, human_count_hits(text, HUMAN_EMOTION)
             + Min(3, count_hits(text, EXCLAMATIONS)))

score_overload(text) == Min(3, human_count_hits(text, HUMAN_OVERLOAD))

\* round(n / 3, 6) in millionths
round6_thirds(n) == (n * 2000000 + 3) \div 6

\* score_fatigue, in millionths, from the hour of the clock, the number of
\* session_history entries of the last hour and today's daily count
score_fatigue(clock) ==
    LET night == IF clock.hour >= 23 \/ clock.hour <= 5 THEN 1000000 ELSE 0
        per_hour == IF clock.recent > 20 THEN 1000000
                    ELSE clock.recent * 50000
        per_day == IF clock.daily > 50 THEN 1000000
                   ELSE clock.daily * 20000
    IN  Max(night, Max(per_hour, per_day))

\* The band of analyze_human on a score given in ninths of a millionth
human_band(content_max) ==
    IF content_max >= 6750000 THEN <<"cool", 30>>
    ELSE IF content_max >= 4950000 THEN <<"block", 40>>
    ELSE IF content_max >= 3150000 THEN <<"warn", 70>>
    ELSE <<"pass", 100>>

\* Changed: fatigue takes part in the band
analyze_human_any_signal(text, clock) ==
    LET emo == score_emotional(text) * 3000000
        ovl == score_overload(text) * 3000000
        fat == score_fatigue(clock) * 9
        top == Max(emo, Max(ovl, fat))
        band == human_band(top)
        promoted == fat > 4500000 /\ band[1] = "pass"
    IN  [ emotional |-> round6_thirds(score_emotional(text)),
          overload |-> round6_thirds(score_overload(text)),
          fatigue |-> score_fatigue(clock),
          composite |-> ((18 * top + 4 * (emo + ovl + fat)) * 2 + 270)
                            \div 540,
          action |-> IF promoted THEN "warn" ELSE band[1],
          temperature_modifier |-> IF promoted THEN 85 ELSE band[2] ]

\* analyze_human; temperature_modifier in hundredths, the scores in
\* millionths, the sums inside in ninths of a millionth
analyze_human(text, clock) ==
    LET emo == score_emotional(text) * 3000000
        ovl == score_overload(text) * 3000000
        fat == score_fatigue(clock) * 9
        top == Max(emo, Max(ovl, fat))
        band == human_band(Max(emo, ovl))
        promoted == fat > 4500000 /\ band[1] = "pass"
    IN  [ emotional |-> round6_thirds(score_emotional(text)),
          overload |-> round6_thirds(score_overload(text)),
          fatigue |-> score_fatigue(clock),
          composite |-> ((18 * top + 4 * (emo + ovl + fat)) * 2 + 270)
                            \div 540,
          action |-> IF promoted THEN "warn" ELSE band[1],
          temperature_modifier |-> IF promoted THEN 85 ELSE band[2] ]

AnalyzeHuman(text, clock) ==
    /\ last' = [ op |-> "analyze_human", text |-> text, clock |-> clock,
                 result |-> analyze_human(text, clock) ]
    /\ UNCHANGED <<state, uuid_count, n_patrol, files, requests, agent>>

----------------------------------------------------------------------------
(* SpecHuman: analyze_human over texts and states of the user *)

MaxHumanHits == 2

HumanText(emo, ex, ovl, both) ==
    <<"Q">> \o Rep("imasugu", emo) \o Rep("!", ex) \o Rep("zenbu", ovl)
            \o Rep("zenbumatomete", both)

HumanTexts ==
    { HumanText(emo, ex, ovl, both) :
        emo \in 0..MaxHumanHits, ex \in 0..1, ovl \in 0..1, both \in 0..1 }

\* Day and night, and counts on both sides of the limits 20 and 50
Clocks ==
    { [hour |-> h, recent |-> c[1], daily |-> c[2]] :
        h \in {6, 23},
        c \in {<<0, 0>>, <<10, 25>>, <<11, 0>>, <<0, 26>>, <<21, 51>>} }

HumanAnalyze == \E text \in HumanTexts, clock \in Clocks :
                    AnalyzeHuman(text, clock)

SpecHuman == Init /\ [][HumanAnalyze]_vars

\* C32: whenever the emotional and the overload score returned by
\* analyze_human are both below 0.35, its action is pass or warn and its
\* temperature_modifier is 1.0 or 0.85, whatever the fatigue score is.
C32_FatigueNeverBlocks ==
    last.op = "analyze_human" =>
        LET r == last.result
        IN  (r.emotional < 350000 /\ r.overload < 350000)
            => /\ r.action \in {"pass", "warn"}
               /\ r.temperature_modifier \in {100, 85}
               /\ (r.action = "warn") = (r.fatigue > 500000)
               /\ (r.action = "warn") = (r.temperature_modifier = 85)

\* One emotional word (score 1/3) at night: full fatigue, the action is
\* warn at 0.85
C32_Witness ==
    /\ last.op = "analyze_human"
    /\ last.result.emotional = 333333
    /\ last.result.overload = 0
    /\ last.result.fatigue = 1000000
    /\ last.result.action = "warn"
    /\ last.result.temperature_modifier = 85

----------------------------------------------------------------------------
(* reco3_agent/agent_gate.py: the local and the remote verdict merged *)

\* The words _rewrite_calm removes, after the exclamation marks
CALM_REMOVED ==
    {"fuzakeruna", "tsukaenai", "iikagennishite", "isoide", "imasugu",
     "hayaku"}

rewrite_calm(text) ==
    <<"[reisei_mode]">>
        \o SelectSeq(text, LAMBDA w : w \notin EXCLAMATIONS \cup CALM_REMOVED)

\* sev_map and its counterpart for the local action; 0 for any other value
remote_sev(remote) ==
    IF remote = <<>> THEN 0
    ELSE CASE remote.risk_level = "moderate" -> 1
           [] remote.risk_level = "high"     -> 2
           [] remote.risk_level = "critical" -> 3
           [] OTHER                          -> 0

local_sev(local) ==
    CASE local.action = "warn"  -> 1
      [] local.action = "block" -> 2
      [] local.action = "cool"  -> 3
      [] OTHER                  -> 0

remote_action(risk_level) ==
    CASE risk_level = "moderate" -> "warn"
      [] risk_level = "high"     -> "block"
      [] risk_level = "critical" -> "cool"
      [] OTHER                   -> "pass"

\* Changed: the remote verdict wins ties
evaluate_input_remote_ties(text, clock, remote) ==
    LET local == analyze_human(text, clock)
        worst == IF local_sev(local) > remote_sev(remote)
                 THEN "local" ELSE "remote"
        use_remote == remote # <<>> /\ worst = "remote"
        action == IF use_remote THEN remote_action(remote.risk_level)
                  ELSE local.action
        rewrite == action \in {"warn", "block", "cool"}
    IN  [ local |-> local, remote |-> remote, worst |-> worst,
          action |-> action,
          temperature_modifier |->
              IF use_remote THEN remote.temperature_modifier * 10
              ELSE local.temperature_modifier,
          rewrite |-> rewrite,
          text |-> IF rewrite THEN rewrite_calm(text) ELSE text ]

\* evaluate_input(text, user_state, reco3_url); remote is what _post_json
\* returned, <<>> for None (no url, a failed call, a reply that is no
\* object); the remote temperature_modifier comes in tenths, the result
\* carries hundredths
evaluate_input(text, clock, remote) ==
    LET local == analyze_human(text, clock)
        worst == IF local_sev(local) >= remote_sev(remote)
                 THEN "local" ELSE "remote"
        use_remote == remote # <<>> /\ worst = "remote"
        action == IF use_remote THEN remote_action(remote.risk_level)
                  ELSE local.action
        rewrite == action \in {"warn", "block", "cool"}
    IN  [ local |-> local, remote |-> remote, worst |-> worst,
          action |-> action,
          temperature_modifier |->
              IF use_remote THEN remote.temperature_modifier * 10
              ELSE local.temperature_modifier,
          rewrite |-> rewrite,
          text |-> IF rewrite THEN rewrite_calm(text) ELSE text ]

\* The call, with the entry it appends to agent_logs.jsonl
EvaluateInput(text, clock, remote) ==
    /\ last' = [ op |-> "evaluate_input", text |-> text, clock |-> clock,
                 remote |-> remote, logged |-> "input_eval",
                 result |-> evaluate_input(text, clock, remote) ]
    /\ UNCHANGED <<state, uuid_count, n_patrol, files, requests, agent>>

----------------------------------------------------------------------------
(* SpecMerge: evaluate_input over local and remote verdicts of every rank *)

\* What /api/r3/analyze_input may answer: its analysis of the text under
\* the default weights, a verdict of each level, or nothing
Remotes(text) ==
    { <<>>, input_analyze(text, DEFAULTS) }
    \cup { [risk_level |-> l, temperature_modifier |-> input_t_mod(l)] :
             l \in {"low", "moderate", "high", "critical"} }

MergeTexts ==
    { HumanText(emo, 0, ovl, 0) :
        emo \in 0..MaxHumanHits, ovl \in 0..MaxHumanHits + 1 }
    \cup {InputModerate, InputHigh}

MergeClocks ==
    { [hour |-> h, recent |-> 0, daily |-> 0] : h \in {12, 23} }

MergeEvaluate ==
    \E text \in MergeTexts, clock \in MergeClocks :
        \E remote \in Remotes(text) : EvaluateInput(text, clock, remote)

SpecMerge == Init /\ [][MergeEvaluate]_vars

\* The rank of a verdict on the scale of the claim
Severity(verdict) ==
    CASE verdict \in {"pass", "low"}      -> 0
      [] verdict \in {"warn", "moderate"} -> 1
      [] verdict \in {"block", "high"}    -> 2
      [] verdict \in {"cool", "critical"} -> 3

\* C31: evaluate_input returns the more severe of the local action and the
\* remote risk level on pass/low < warn/moderate < block/high <
\* cool/critical; on a tie the local verdict is returned, a remote call
\* that gave nothing counts as low, and temperature_modifier comes from the
\* side whose verdict is returned.
C31_WorstOfMerge ==
    last.op = "evaluate_input" =>
        LET r == last.result
            l == Severity(r.local.action)
            m == IF last.remote = <<>> THEN 0
                 ELSE Severity(last.remote.risk_level)
        IN  /\ Severity(r.action) = Max(l, m)
            /\ l >= m => /\ r.worst = "local"
                         /\ r.action = r.local.action
                         /\ r.temperature_modifier
                              = r.local.temperature_modifier
            /\ l < m => /\ r.worst = "remote"
                        /\ r.temperature_modifier
                             = last.remote.temperature_modifier * 10

\* A tie at the third rank: the local verdict block and the remote level
\* high; the result carries the local 0.4, not the remote 0.5
C31_Witness ==
    /\ last.op = "evaluate_input"
    /\ last.result.local.action = "block"
    /\ last.remote # <<>>
    /\ last.remote.risk_level = "high"
    /\ last.result.action = "block"
    /\ last.result.temperature_modifier = 40

----------------------------------------------------------------------------
(* SpecSafe: turns of the agent's loop on a network that comes and goes *)

\* What the server queues in these turns: nothing, or one command
SafeCommandLists ==
    { <<>> } \cup
    { <<[id |-> 1, type |-> t[1], mode |-> t[2], process |-> ""]>> :
        t \in { <<"SET_MODE", "NORMAL">>, <<"SET_MODE", "SAFE">>,
                <<"SET_MODE", "DEBUG">>, <<"NOTIFY_OPS", "">> } }

SafeTurn ==
    \E hb \in {"none", "ok", "fail", "auth"},
       pull \in {"none", "ok", "fail", "auth"},
       commands \in SafeCommandLists :
        \E posts \in [1..Len(commands) -> {"ok", "fail"}] :
            /\ RunTurn(hb, pull, commands, {}, posts)
            /\ agent'.failures <= MaxFailures

SpecSafe == Init /\ [][SafeTurn]_vars

\* The highest count the client showed after a request of the last turn,
\* starting from the count n it had before
RECURSIVE PeakFailures(_, _)
PeakFailures(n, outcomes) ==
    IF outcomes = <<>> THEN 0
    ELSE LET m == client_request(n, Head(outcomes))
         IN  Max(IF Head(outcomes) = "none" THEN 0 ELSE m,
                 PeakFailures(m, Tail(outcomes)))

\* A SET_MODE command was executed with success in the last turn
ModeWasSet(a) ==
    \E i \in 1..Len(a.commands) :
        /\ a.commands[i].type = "SET_MODE"
        /\ \E j \in 1..Len(a.executed) : a.executed[j] = i

\* C33: the agent is in SAFE mode as soon as its client has counted 5
\* consecutive failed requests (a request that used up its retries adds
\* one, a request that got a reply resets the count to 0), and once in
\* SAFE the mode changes only through a SET_MODE command executed with
\* success.
C33_SafeAfterFiveFailures ==
    [][ /\ ( /\ PeakFailures(agent.failures, agent'.outcomes)
                  >= SAFE_MODE_FAILURE_THRESHOLD
             /\ ~ModeWasSet(agent') )
           => agent'.current_mode = "SAFE"
        /\ ( /\ agent.current_mode = "SAFE"
             /\ agent'.current_mode # "SAFE" )
           => ModeWasSet(agent') ]_vars

\* What does hold: the mode is SAFE whenever the count stands at 5 or more
\* when a turn ends
C33_SafeAtEndOfTurn ==
    agent.failures >= SAFE_MODE_FAILURE_THRESHOLD
        => agent.current_mode = "SAFE"

----------------------------------------------------------------------------
(* reco3_agent/proxy.py: the chat payload analysed and rewritten *)

\* A payload is a chat (messages, each a role and a text content) or a
\* completion (prompt)
ChatPayload(messages) == [kind |-> "chat", messages |-> messages, prompt |-> <<>>]
PromptPayload(prompt) == [kind |-> "prompt", messages |-> <<>>, prompt |-> prompt]

\* The positions of the user-role messages
user_positions(messages) ==
    {i \in 1..Len(messages) : messages[i].role = "user"}

\* _extract_user_text: the content of the last user message, else the
\* prompt, else None (<<"None">>)
extract_user_text(payload) ==
    LET users == user_positions(payload.messages)
    IN  IF payload.kind = "chat" /\ users # {}
        THEN payload.messages[CHOOSE i \in users : \A j \in users : j <= i]
                 .content
        ELSE IF payload.kind = "prompt" THEN payload.prompt
        ELSE <<"None">>

\* _rewrite_payload: the first user message met gets the new text
rewrite_payload(payload, new_text) ==
    LET users == user_positions(payload.messages)
    IN  IF payload.kind = "chat"
        THEN [payload EXCEPT !.messages =
                 [i \in 1..Len(payload.messages) |->
                     IF i \in users /\ \A j \in users : i <= j
                     THEN [payload.messages[i] EXCEPT !.content = new_text]
                     ELSE payload.messages[i]]]
        ELSE [payload EXCEPT !.prompt = new_text]

\* record_session, as far as score_fatigue sees it: one more entry in
\* session_history and in today's count
record_session(clock) ==
    [clock EXCEPT !.recent = @ + 1, !.daily = @ + 1]

\* ProxyHandler.do_POST up to the request it forwards: 403 on block and
\* cool, else the payload, rewritten when the verdict asks for it
do_POST(payload, enabled, clock, remote) ==
    LET found == extract_user_text(payload)
        user_text == IF found = <<"None">> THEN <<>> ELSE found
        ev == evaluate_input(user_text, record_session(clock), remote)
    IN  IF ~enabled
        THEN [code |-> 0, forwarded |-> payload, analysed |-> <<>>,
              action |-> "", rewrite |-> FALSE]
        ELSE IF ev.action \in {"block", "cool"}
        THEN [code |-> 403, forwarded |-> PromptPayload(<<>>),
              analysed |-> user_text, action |-> ev.action,
              rewrite |-> ev.rewrite]
        ELSE [code |-> 0,
              forwarded |-> IF ev.rewrite
                            THEN rewrite_payload(payload, ev.text)
                            ELSE payload,
              analysed |-> user_text, action |-> ev.action,
              rewrite |-> ev.rewrite]

ProxyPost(payload, enabled, clock, remote) ==
    /\ last' = [ op |-> "proxy_post", payload |-> payload,
                 enabled |-> enabled, clock |-> clock, remote |-> remote,
                 result |-> do_POST(payload, enabled, clock, remote) ]
    /\ UNCHANGED <<state, uuid_count, n_patrol, files, requests, agent>>

----------------------------------------------------------------------------
(* SpecProxy: chat payloads of several turns through the proxy *)

MaxMessages == 2

ProxyMessages ==
    { [role |-> r, content |-> c] :
        r \in {"user", "assistant"}, c \in {<<"Q">>, <<"imasugu", "A">>} }

ProxyPayloads ==
    { ChatPayload(m) :
        m \in UNION {[1..n -> ProxyMessages] : n \in 1..MaxMessages} }
    \cup { PromptPayload(<<"imasugu", "A">>) }

ProxyRemotes ==
    { <<>> } \cup { [risk_level |-> l, temperature_modifier |-> input_t_mod(l)] :
                      l \in {"moderate", "high"} }

ProxyRequest ==
    \E payload \in ProxyPayloads, enabled \in BOOLEAN,
       clock \in MergeClocks, remote \in ProxyRemotes :
        ProxyPost(payload, enabled, clock, remote)

SpecProxy == Init /\ [][ProxyRequest]_vars

\* The last user message of a chat
LastUser(messages) ==
    CHOOSE i \in user_positions(messages) :
        \A j \in user_positions(messages) : j <= i

\* C40: when the proxy forwards a chat payload rewritten after a warn
\* verdict, the message that carries the calmed text is the last user
\* message, the one whose text was analysed, and every other message is
\* forwarded as it came.
C40_RewriteAnalysedMessage ==
    ( /\ last.op = "proxy_post"
      /\ last.result.action = "warn" /\ last.result.rewrite
      /\ last.payload.kind = "chat"
      /\ user_positions(last.payload.messages) # {} )
    => LET before == last.payload.messages
           after == last.result.forwarded.messages
           u == LastUser(before)
       IN  /\ Len(after) = Len(before)
           /\ before[u].content = last.result.analysed
           /\ after[u].content = rewrite_calm(last.result.analysed)
           /\ after[u].role = "user"
           /\ \A i \in 1..Len(before) : i # u => after[i] = before[i]

----------------------------------------------------------------------------
(* SpecCool: cool-down responses between the sessions that lead to the     *)
(* automatic patrol of the tenth                                           *)

CoolSessions == 10

CoolCritical ==
    \E domain \in {"x", "y"} :
        Process(InputCritical, domain, NoContext, DEFAULTS,
                <<OutputSoft, OutputSoft>>)

CoolSession ==
    \E domain \in {"x", "y"}, out \in {OutputSoft, OutputBad} :
        /\ state.total_sessions < CoolSessions
        /\ Process(InputLow, domain, NoContext, DEFAULTS,
                   <<out, OutputSoft>>)

NextCool == CoolCritical \/ CoolSession

SpecCool == Init /\ [][NextCool]_vars

\* C34: process() on critical input leaves total_sessions, session_logs,
\* domains, used_session_ids, k and eta as they were, so that cool-down
\* responses do not count toward the patrol of every tenth session: the
\* session count stays the number of sessions logged, and the automatic
\* patrol runs in the call that logs the tenth of them and in no other.
C34_CoolDownNotCounted ==
    /\ [](state.total_sessions = Len(state.session_logs))
    /\ [][ /\ Critical(last') =>
                /\ state'.total_sessions = state.total_sessions
                /\ state'.session_logs = state.session_logs
                /\ state'.domains = state.domains
                /\ state'.used_session_ids = state.used_session_ids
                /\ state'.k = state.k
                /\ state'.eta = state.eta
                /\ ~last'.auto_patrol
           /\ last'.auto_patrol <=>
                /\ NonCritical(last')
                /\ Len(state'.session_logs) = Len(state.session_logs) + 1
                /\ Len(state'.session_logs) % PATROL_EVERY = 0 ]_vars

\* A cool-down response given when nine sessions are logged: the next
\* session is still the one that runs the patrol
C34_Witness ==
    /\ Critical(last)
    /\ state.total_sessions = PATROL_EVERY - 1
    /\ Len(state.session_logs) = PATROL_EVERY - 1

----------------------------------------------------------------------------
(* SpecBridge: sessions logged through process() and through evaluate,    *)
(* with feedback and patrols that move k in between                        *)

BridgeSessions == 3

BridgeProcess ==
    \E out \in {OutputSoft, OutputBad} :
        /\ state.total_sessions < BridgeSessions
        /\ Process(InputLow, "y", NoContext, DEFAULTS, <<out, out>>)

BridgeEvaluate ==
    /\ state.total_sessions < BridgeSessions
    /\ Evaluate(PayloadFar("y"))

BridgeFeedback ==
    \E id \in {uuid_count} \ {0}, fb \in {"good", "bad"} :
        /\ WouldRecord(Feedback(id, FALSE, "y", fb))
        /\ RecordFeedback(Feedback(id, FALSE, "y", fb))

BridgePatrol ==
    /\ n_patrol < MaxPatrols
    /\ Patrol

NextBridge == BridgeProcess \/ BridgeEvaluate \/ BridgeFeedback \/ BridgePatrol

SpecBridge == Init /\ [][NextBridge]_vars

\* Every entry of the window has deviation 0
AllExact(window) == \A i \in 1..Len(window) : window[i].D = 0

\* C35: the log entry of a session logged through process() has D = 0 and
\* T = max(0.1, T_base), whatever k is at the time of the call; a patrol
\* whose window holds only entries with D = 0 fires neither rule on
\* avgD > 0.3 and leaves eta as it was.
C35_BridgedDeviationZero ==
    [][ /\ ( Returned(last') /\ last'.session_id # 0 ) =>
              LET entry == state'.session_logs[Len(state'.session_logs)]
              IN  /\ AppendedAs(last'.session_id)
                  /\ entry.D = 0
                  /\ entry.T = Max(100000, state.T_base * 1000)
        /\ ( /\ last'.op = "patrol"
             /\ AllExact(patrol_window(state.session_logs)) ) =>
              /\ ~rule_strictify(patrol_window(state.session_logs))
              /\ ~rule_learn_faster(patrol_window(state.session_logs))
              /\ state'.eta = state.eta ]_vars

\* A session logged through process() after patrols had moved k off its
\* default 1.5: D is 0 and T is T_base = 0.8
C35_Witness ==
    /\ Returned(last) /\ last.session_id # 0
    /\ state.k # default_state.k
    /\ Len(state.session_logs) > 1
    /\ LET entry == state.session_logs[Len(state.session_logs)]
       IN  /\ entry.session_id = last.session_id
           /\ entry.D = 0 /\ entry.T = 800000
    /\ state.session_logs[1].D > 0

----------------------------------------------------------------------------
(* eta under SpecTune: one session and any number of patrols *)

\* C39: from the default state on, no call of evaluate, record_feedback or
\* patrol makes eta smaller, so that eta stays at eta_max once it is there;
\* k is moved by patrol in both directions, eta only upward.
C39_EtaNeverDecreases ==
    [][ /\ state'.eta >= state.eta
        /\ state.eta = state.eta_max => state'.eta = state.eta_max
        /\ last'.op # "patrol" => state'.eta = state.eta ]_vars

\* A patrol over a far session with bad feedback, run with eta already at
\* eta_max = 0.1: the rule fires and eta stays
C39_Witness ==
    /\ last.op = "patrol" /\ last.adjusted
    /\ state.eta = state.eta_max
    /\ state.eta > default_state.eta
    /\ state.k = state.k_max

----------------------------------------------------------------------------
(* SpecQuiet: sessions up to the automatic patrol of the tenth, manual     *)
(* patrols, and at most one feedback                                       *)

QuietSessions == 10

\* D = 0 and nothing known of the context: T = T_base, alpha = 1,
\* beta = 0.5, the lowest psi an evaluation can have
PayloadLowest(domain) ==
    Payload(Map1("a", 500000), Map1("a", 500000),
            Context(domain, 0, FALSE, 0, 0))

QuietPayloads(logs) ==
    IF logs # <<>> /\ logs[Len(logs)].domain = "y"
    THEN {PayloadFar("y")}
    ELSE {PayloadLowest("x"), PayloadFar("y")}

QuietEvaluate ==
    \E p \in QuietPayloads(state.session_logs) :
        /\ state.total_sessions < QuietSessions
        /\ Evaluate(p)

QuietFeedback ==
    \E id \in {uuid_count, ForeignId} \ {0}, fb \in {"good", "bad"} :
        /\ state.used_session_ids = {}
        /\ RecordFeedback(Feedback(id, FALSE, "x", fb))

QuietPatrol ==
    /\ n_patrol < MaxPatrols
    /\ Patrol

NextQuiet == QuietEvaluate \/ QuietFeedback \/ QuietPatrol

SpecQuiet == Init /\ [][NextQuiet]_vars

\* No entry of the log carries a reward
NoRewards(logs) == \A i \in 1..Len(logs) : logs[i].reward = <<>>

\* C36: from the default state on, while every log entry's reward is null,
\* no patrol, manual or automatic, changes k or eta, which stay 1.5 and
\* 0.01; every entry written by evaluate has T <= T_base = 0.8 and
\* psi >= 0.5 (0.625 at the least).
C36_NoFeedbackNoAdjustment ==
    /\ [](\A i \in 1..Len(state.session_logs) :
             /\ state.session_logs[i].T <= state.T_base * 1000
             /\ state.session_logs[i].psi >= 625)
    /\ [](NoRewards(state.session_logs)
             => /\ state.k = default_state.k
                /\ state.eta = default_state.eta)
    /\ [][ NoRewards(state'.session_logs)
             => /\ state'.k = state.k /\ state'.eta = state.eta
                /\ ~last'.adjusted ]_vars

\* The automatic patrol of the tenth session over a window with
\* avgD > 0.3 and an entry at psi = 0.625, no reward given: no change
C36_Witness ==
    /\ last.op = "evaluate" /\ last.auto_patrol /\ ~last.adjusted
    /\ state.total_sessions = PATROL_EVERY
    /\ NoRewards(state.session_logs)
    /\ rule_tighten(patrol_window(state.session_logs)) = FALSE
    /\ window_sumD(patrol_window(state.session_logs))
         > 300 * Len(patrol_window(state.session_logs))
    /\ \E i \in 1..Len(state.session_logs) :
          state.session_logs[i].psi = 625
    /\ state.k = 150 /\ state.eta = 10000

----------------------------------------------------------------------------
(* SpecEvict: evaluations past the cap of the log, closed by one feedback  *)
(* on the first session, on the latest one or on an id never issued, given *)
(* among the first sessions or once the log is full                        *)

EvictEvaluate ==
    /\ state.total_sessions < LOG_CAP + CapExtra
    /\ state.used_session_ids = {}
    /\ Evaluate(PayloadExact("x"))

EvictFeedbacks ==
    { Feedback(id, FALSE, d, fb) :
        id \in {1, uuid_count, ForeignId} \ {0},
        d \in {"x", "z"}, fb \in {"good", "bad"} }

EvictFeedback ==
    \E p \in EvictFeedbacks :
        /\ state.used_session_ids = {}
        /\ \/ state.total_sessions < PATROL_EVERY
           \/ state.total_sessions >= LOG_CAP
        /\ RecordFeedback(p)

NextEvict == EvictEvaluate \/ EvictFeedback

SpecEvict == Init /\ [][NextEvict]_vars

\* C37: a well-formed feedback on a session id that is in no log entry
\* (never issued by evaluate, or evicted by the cap of the log) and was not
\* used before returns recorded, adds the id to used_session_ids and moves
\* the weight of the named domain by eta * R, and leaves session_logs as it
\* was.
C37_FeedbackOnUnknownSession ==
    [][ \A p \in EvictFeedbacks :
          ( /\ RecordFeedback(p)
            /\ validate_feedback(p) = ""
            /\ StripId(p.session_id) \notin state.used_session_ids
            /\ \A i \in 1..Len(state.session_logs) :
                  state.session_logs[i].session_id # StripId(p.session_id) )
          => /\ last'.op = "feedback" /\ last'.error = ""
             /\ last'.status = "recorded"
             /\ state'.used_session_ids
                  = state.used_session_ids \cup {StripId(p.session_id)}
             /\ get_domain_weight(state', p.domain)
                  = get_domain_weight(state, p.domain)
                      + (state.eta * reward_of(p.feedback)) \div 10
             /\ get_domain_weight(state', p.domain)
                  # get_domain_weight(state, p.domain)
             /\ state'.session_logs = state.session_logs ]_vars

\* The feedback came for session 1 after the cap had evicted its entry
C37_Witness ==
    /\ last.op = "feedback" /\ last.status = "recorded"
    /\ state.used_session_ids = {1}
    /\ state.total_sessions > LOG_CAP
    /\ Len(state.session_logs) = LOG_CAP
    /\ state.session_logs[1].session_id > 1
    /\ \A i \in {1, LOG_CAP} : state.session_logs[i].reward = <<>>
    /\ get_domain_weight(state, "x") # 1000000

----------------------------------------------------------------------------
(* The final attempt under SpecReply *)

\* psi_modifier of the output of the last generate call
FinalPsi(r) == r.psis[Len(r.psis)]

\* C38: with PSI_REGEN_THRESHOLD at its default 0.50, when process()
\* returns after a final attempt whose psi_modifier is below the threshold
\* the final output action is regenerate, the response is the text behind
\* the warning disclaimer and annotated is true; an output that is
\* softened, annotated or passed has met the threshold.
C38_RejectedOutputIsFlagged ==
    ( Returned(last) /\ last.threshold = 500000 ) =>
        /\ Len(last.psis) = last.attempts /\ last.attempts > 0
        /\ FinalPsi(last) < last.threshold
             => /\ last.action = "regenerate"
                /\ last.annotated
                /\ last.response = Disclaimer("regenerate") \o last.generated
        /\ last.action \in {"soften", "annotate", "pass"}
             => FinalPsi(last) >= last.threshold

\* Both attempts allowed by the default configuration were rejected: the
\* second output, at 0.467674, is returned behind the warning
C38_Witness ==
    /\ Returned(last) /\ last.threshold = 500000 /\ last.max_regen = 2
    /\ last.attempts = 2 /\ last.regenerated
    /\ FinalPsi(last) = 467674
    /\ last.action = "regenerate" /\ last.annotated
    /\ last.response = <<"(keikoku)">> \o OutputBad

====
